---------------------------- MODULE Spec2Model ----------------------------
(***************************************************************************)
(* A model of mmdet/models/utils/transformer_old.py.                       *)
(*                                                                         *)
(* Part 1: Pix2seqTransformer.forward / Pix2seqTransformerPro.forward (the *)
(* two bodies are textually the same): the training pass with the causal   *)
(* mask, and the autoregressive inference loop with the key/value cache of *)
(* SelfPix2seqAttention and the end-of-sequence bookkeeping.               *)
(*                                                                         *)
(* Part 2: top_k_top_p_filtering as a function of a 1-D logits vector.     *)
(*                                                                         *)
(* Part 3: the quantizers.  Part 4: gen_encoder_output_proposals and the   *)
(* two-stage selection of proposals.  Part 5: inverse_sigmoid.  Part 6:    *)
(* DeformableDetrTransformerDecoder.forward.  Part 7: AdaptivePadding.     *)
(* Part 8: DetrTransformerDecoder.forward.  Part 9: nlc_to_nchw,             *)
(* nchw_to_nlc, PatchEmbed and PatchMerging.  Part 10: the choice of the     *)
(* next token of a decode step.  Every part has its own                    *)
(* specification; the variables of the other parts stay at rest in it.     *)
(*                                                                         *)
(* Tensors are abstracted to what the control flow and the indexing read:  *)
(* a decoder position is named by its index, a cached key/value pair by    *)
(* the position it was computed from, a per-step output by its step index, *)
(* a classifier row by its vector of logits.                               *)
(***************************************************************************)
EXTENDS Integers, Sequences, FiniteSets, TLC

VARIABLES
    pc,               \* "idle" | "loop" | "post" | "done" | "raised"
    training,         \* self.training of the module tree
    pred_eos,         \* self.pred_eos, fixed at construction
    nucleus_sampling, \* argument of forward
    bs,               \* batch size of the call
    seq_i,            \* loop variable of `for seq_i in range(500)`
    end,              \* end[b]: sample b has signalled end-of-sequence
    end_lens,         \* end_lens[b]: recorded end length of sample b
    pre_kv,           \* pre_kv[l]: the cached positions of decoder layer l
    attn,             \* attn[l][i]: the key positions the i-th query of
                      \* the last decoder call attended to in layer l
    pred_seq_logits,  \* the per-step outputs appended so far
    ret,              \* the returned value (one sequence per sample)
    nDecoder,         \* history: decoder invocations of the current call
    emitted,          \* history: sample b's classifier row had the
                      \* end-of-sequence class as argmax at some step
    firstEos,         \* history, kept while pred_eos: the first such step
                      \* of sample b, or -1
    broke,            \* history: the loop was left by `break`
    f_pc,             \* "call" | "filtered"
    logits0,          \* the logits handed to top_k_top_p_filtering
    logits,           \* the (in place modified) logits
    top_k,            \* argument top_k
    top_p,            \* argument top_p, as the numerator of top_p / PDen
    sorted_indices,   \* the permutation torch.sort returned (<<>> if unused)
    q_pc,             \* "idle" | "call" | "loop" | "done" | "raised"
    q_kind,           \* the class of the quantizer
    num_embeddings,   \* self._num_embeddings
    embedding,        \* self._embedding.weight: embedding[c] is entry c
    quant_num,        \* len(self.fcs) of a CustomGumbelQuantizer
    input_shape,      \* inputs.shape
    flat_input,       \* inputs.view(-1, self._embedding_dim), row by row
    quantized,        \* the returned quantized tensor, row by row
    quantized_shape,  \* its shape
    encoding_indices, \* the returned indices, in the order of dimension 0
    q_i,              \* the iterations of `for fc in self.fcs` done
    p_pc,             \* "idle" | "call" | "proposals" | "done" | "raised"
    spatial_shapes,   \* the (H, W) of every feature level
    memory_padding_mask, \* mask_flatten of the sample
    memory,           \* the encoder output of the sample, row by row
    two_stage_num_proposals, \* self.two_stage_num_proposals
    output_proposals, \* the un-activated proposals, 4 coordinates a row
    output_memory,    \* memory after the two masked_fill, row by row
    enc_outputs_class, \* enc_outputs_class[..., 0], row by row
    topk_proposals,   \* the positions torch.topk selected
    s_pc,             \* "idle" | "sigmoid" | "inverse" | "done"
    s_fromSigmoid,    \* x is computed as y.sigmoid()
    s_y,              \* the logit y
    s_x,              \* argument x of inverse_sigmoid
    s_eps,            \* argument eps of inverse_sigmoid
    s_x1,             \* x1 of inverse_sigmoid
    s_x2,             \* x2 of inverse_sigmoid
    s_out,            \* the returned value
    d_pc,             \* "idle" | "loop" | "done" | "raised"
    d_lid,            \* lid of the decoder loop
    d_num_layers,     \* len(self.layers)
    reference_points, \* the reference point of the query
    reg_width,        \* 0: reg_branches is None; else the width of tmp
    d_return_intermediate, \* self.return_intermediate
    valid_ratios,     \* valid_ratios of the level
    reference_points_input, \* what the last layer was handed
    intermediate,     \* the list `intermediate`
    intermediate_reference_points, \* the list of that name
    d_ret,            \* the returned reference points
    a_pc,             \* "idle" | "call" | "done" | "twice"
    kernel_size,      \* self.kernel_size
    stride,           \* self.stride
    dilation,         \* self.dilation
    padding,          \* self.padding
    a_input,          \* x.size()[-2:] of the input
    a_pads,           \* the padding applied: (left, right, top, bottom)
    a_output,         \* the last two sizes of the returned tensor
    t_pc,             \* "idle" | "call" | "done"
    t_return_intermediate, \* self.return_intermediate
    t_post_norm,      \* self.post_norm is a norm layer (not None)
    t_num_layers,     \* len(self.layers)
    t_query_shape,    \* query.shape
    t_intermediate,   \* the list `intermediate`: the layers appended
    t_ret_shape,      \* the shape of the returned tensor
    t_ret_layers,     \* the layers whose outputs it holds, in order
    m_pc,             \* "idle" | "call" | "done" | "raised"
    m_op,             \* the function or layer called
    x_shape,          \* x.shape
    hw_shape,         \* hw_shape of nlc_to_nchw, input_size of
                      \* PatchMerging.forward and of PatchEmbed.__init__
    init_out_size,    \* self.init_out_size of the PatchEmbed
    m_ret_shape,      \* the shape of the returned tensor
    out_size,         \* the returned out_size / output_size
    g_pc,             \* "idle" | "call" | "done"
    g_row,            \* similarity[0, b, :] of one sample b
    g_stop_state,     \* stop_state[b]
    g_pred_token      \* pred_token[0, b]

decVars == <<pc, training, pred_eos, nucleus_sampling, bs, seq_i, end,
             end_lens, pre_kv, attn, pred_seq_logits, ret, nDecoder,
             emitted, firstEos, broke>>
filterVars == <<f_pc, logits0, logits, top_k, top_p, sorted_indices>>
quantVars == <<q_pc, q_kind, num_embeddings, embedding, quant_num,
               input_shape, flat_input, quantized, quantized_shape,
               encoding_indices, q_i>>
propVars == <<p_pc, spatial_shapes, memory_padding_mask, memory,
              two_stage_num_proposals, output_proposals, output_memory,
              enc_outputs_class, topk_proposals>>
sigVars == <<s_pc, s_fromSigmoid, s_y, s_x, s_eps, s_x1, s_x2, s_out>>
deformVars == <<d_pc, d_lid, d_num_layers, reference_points, reg_width,
                d_return_intermediate, valid_ratios, reference_points_input,
                intermediate, intermediate_reference_points, d_ret>>
padVars == <<a_pc, kernel_size, stride, dilation, padding, a_input, a_pads,
             a_output>>
detrVars == <<t_pc, t_return_intermediate, t_post_norm, t_num_layers,
              t_query_shape, t_intermediate, t_ret_shape, t_ret_layers>>
patchVars == <<m_pc, m_op, x_shape, hw_shape, init_out_size, m_ret_shape,
               out_size>>
tokenVars == <<g_pc, g_row, g_stop_state, g_pred_token>>
vars == <<decVars, filterVars, quantVars, propVars, sigVars, deformVars,
          padVars, detrVars, patchVars, tokenVars>>
\* the variables an operation of one part leaves alone
notDecVars == <<filterVars, quantVars, propVars, sigVars, deformVars,
                padVars, detrVars, patchVars, tokenVars>>
notFilterVars == <<decVars, quantVars, propVars, sigVars, deformVars,
                   padVars, detrVars, patchVars, tokenVars>>
notQuantVars == <<decVars, filterVars, propVars, sigVars, deformVars,
                  padVars, detrVars, patchVars, tokenVars>>
notPropVars == <<decVars, filterVars, quantVars, sigVars, deformVars,
                 padVars, detrVars, patchVars, tokenVars>>
notSigVars == <<decVars, filterVars, quantVars, propVars, deformVars,
                padVars, detrVars, patchVars, tokenVars>>
notDeformVars == <<decVars, filterVars, quantVars, propVars, sigVars,
                   padVars, detrVars, patchVars, tokenVars>>
notPadVars == <<decVars, filterVars, quantVars, propVars, sigVars,
                deformVars, detrVars, patchVars, tokenVars>>
notDetrVars == <<decVars, filterVars, quantVars, propVars, sigVars,
                 deformVars, padVars, patchVars, tokenVars>>
notPatchVars == <<decVars, filterVars, quantVars, propVars, sigVars,
                  deformVars, padVars, detrVars, tokenVars>>
notTokenVars == <<decVars, filterVars, quantVars, propVars, sigVars,
                  deformVars, padVars, detrVars, patchVars>>
notPatchPadVars == <<decVars, filterVars, quantVars, propVars, sigVars,
                     deformVars, detrVars, tokenVars>>

---------------------------------------------------------------------------
(* Bounds of the model and constants of the program. *)

\* largest batch size of a call
BS == 2
\* the classifier may put the end-of-sequence class first only at the step
\* indexes of EosSteps, which end below EosWindow
EosWindow == 7
\* self.decoder.num_layers
NumLayers == 2
\* num_vocal: the number of classes of the classifier
NumVocal == 4
\* largest num_seq of a training pass
MaxSeq == 4
\* `for seq_i in range(500)`, `end_lens.fill_(500)`
MaxLen == 500
\* largest vocabulary size of a filtered logits vector
MaxVocab == 3
\* the finite logits of a filtered vector are 0..MaxLogit
MaxLogit == 2
\* top_p ranges over the multiples of 1 / PDen
PDen == 4

Min(a, b) == IF a < b THEN a ELSE b

Iota(n) == [i \in 1..n |-> i - 1]

---------------------------------------------------------------------------
(* Classifier rows. *)

\* a row of `similarity`: the logits of the NumVocal classes of one sample
OneHot(c) == [i \in 0..(NumVocal - 1) |-> IF i = c THEN 1 ELSE 0]
\* the rows the model lets the classifier produce: the maximum at an
\* ordinary class, at the end-of-sequence class, at the last class
SimilarityRows == {OneHot(0), OneHot(NumVocal - 2), OneHot(NumVocal - 1)}

\* row[: n].argmax(): the first index holding the maximum of the first n
ArgMax(row, n) ==
    CHOOSE i \in 0..(n - 1) :
        /\ \A j \in 0..(n - 1) : row[j] <= row[i]
        /\ \A j \in 0..(i - 1) : row[j] < row[i]

\* similarity[:, :, : num_vocal - 1].argmax(dim=-1).eq(num_vocal - 2)
IsEos(row) == ArgMax(row, NumVocal - 1) = NumVocal - 2

\* similarity[:, :, : num_vocal - 2].argmax(dim=-1)
GreedyTokenWithEos(row) == ArgMax(row, NumVocal - 1)
GreedyToken(row) == ArgMax(row, NumVocal - 2)

\* the steps at which the model lets a sample emit end-of-sequence: the
\* first step, and the steps just before, at and after the least index at
\* which the loop may break
EosSteps == {0} \cup 4..(EosWindow - 1)

\* the classifier outputs the model lets step s produce for a batch of n
StepSimilarities(n, s) ==
    [1..n -> {r \in SimilarityRows : s \in EosSteps \/ ~IsEos(r)}]

---------------------------------------------------------------------------
(* Self-attention with the key/value cache. *)

NoMask == <<>>

\* torch.triu(torch.ones((n, n)), diagonal=d).bool()[i][j], 0-based
TriuEntry(i, j, d) == j - i >= d

\* the mask with the diagonal masked as well (diagonal=0)
SelfAttnMaskDiag0(n) ==
    [i \in 1..n |-> [j \in 1..n |-> TriuEntry(i - 1, j - 1, 0)]]

\* self_attn_mask of the training pass
SelfAttnMask(n) ==
    [i \in 1..n |-> [j \in 1..n |-> TriuEntry(i - 1, j - 1, 1)]]

\* the concatenation with its operands swapped
CatKVPrepend(pre, k) == k \o pre

\* torch.cat([pre_kv[0], k], dim=2)
CatKV(pre, k) == pre \o k

\* attn.masked_fill_(attn_mask, -inf).softmax(): the keys of k, in order,
\* whose score a row of the mask leaves finite
RECURSIVE Unmasked(_, _, _)
Unmasked(k, row, j) ==
    IF j > Len(k) THEN <<>>
    ELSE (IF row[j] THEN <<>> ELSE <<k[j]>>) \o Unmasked(k, row, j + 1)

\* SelfPix2seqAttention.forward for the queries x (a sequence of positions):
\* the new cache and, per query, the key positions with a finite score
SelfAttnForward(x, pre, train, mask) ==
    LET k == IF ~train THEN CatKV(pre, x) ELSE x
        cur == IF ~train THEN k ELSE pre
    IN  [pre_kv |-> cur,
         attn |-> [i \in 1..Len(x) |->
                     IF mask = NoMask THEN k ELSE Unmasked(k, mask[i], 1)]]

\* Pix2seqTransformerDecoder.forward: every layer runs its self-attention
\* on the same positions with its own cache
DecoderForward(x, pre_kv_list, train, mask) ==
    LET per == [l \in 1..NumLayers |->
                  SelfAttnForward(x, pre_kv_list[l], train, mask)]
    IN  [kv |-> [l \in 1..NumLayers |-> per[l].pre_kv],
         attn |-> [l \in 1..NumLayers |-> per[l].attn]]

\* pre_kv = [torch.as_tensor([[], []]) for _ in range(num_layers)]
EmptyKV == [l \in 1..NumLayers |-> <<>>]

---------------------------------------------------------------------------
(* The inference loop. *)

\* a loop that runs one iteration more
LoopRangeInclusive(s) == s < MaxLen + 1

\* range(500)
LoopRange(s) == s < MaxLen

\* the break taken as soon as any sample has signalled
BreakCondAny(e, s) == (\E b \in DOMAIN e : e[b]) /\ s > 4

\* the break taken one step later
BreakCondLate(e, s) == (\A b \in DOMAIN e : e[b]) /\ s > 5

\* end.all() and seq_i > 4
BreakCond(e, s) == (\A b \in DOMAIN e : e[b]) /\ s > 4

\* torch.squeeze(similarity).dim() for similarity of shape [1, n, NumVocal]
SqueezedDim(n) ==
    (IF n = 1 THEN 0 ELSE 1) + (IF NumVocal = 1 THEN 0 ELSE 1)

\* psl[:end_idx]
SliceInclusive(s, n) == SubSeq(s, 1, Min(n + 1, Len(s)))
Slice(s, n) == SubSeq(s, 1, Min(n, Len(s)))

Idle == pc \in {"idle", "done", "raised"}

\* forward with self.training: one masked pass over num_seq positions
ForwardTrain ==
    /\ Idle
    /\ \E n \in 1..BS, num_seq \in 1..MaxSeq :
        LET dec == DecoderForward(Iota(num_seq), EmptyKV, TRUE,
                                  SelfAttnMask(num_seq))
        IN  /\ bs' = n
            /\ training' = TRUE
            /\ pre_kv' = EmptyKV
            /\ attn' = dec.attn
            /\ ret' = [b \in 1..n |-> Iota(num_seq)]
            /\ nDecoder' = 1
            /\ end' = [b \in 1..n |-> FALSE]
            /\ end_lens' = [b \in 1..n |-> 0]
            /\ emitted' = [b \in 1..n |-> FALSE]
            /\ firstEos' = [b \in 1..n |-> -1]
    /\ nucleus_sampling' \in BOOLEAN
    /\ pc' = "done"
    /\ seq_i' = 0
    /\ pred_seq_logits' = <<>>
    /\ broke' = FALSE
    /\ UNCHANGED <<pred_eos>>
    /\ UNCHANGED notDecVars

\* forward without self.training, up to the head of the loop.  The first
\* input is det_embed.weight, one start position per sample (the embedding
\* the caller passes holds one row), so that every decoder call of the loop
\* carries exactly one query: position seq_i.
ForwardInfer ==
    /\ Idle
    /\ \E n \in 1..BS :
        /\ bs' = n
        /\ end' = [b \in 1..n |-> FALSE]
        /\ end_lens' = [b \in 1..n |-> 0]
        /\ emitted' = [b \in 1..n |-> FALSE]
        /\ firstEos' = [b \in 1..n |-> -1]
        /\ ret' = [b \in 1..n |-> <<>>]
    /\ nucleus_sampling' \in BOOLEAN
    /\ training' = FALSE
    /\ pre_kv' = EmptyKV
    /\ attn' = [l \in 1..NumLayers |-> <<>>]
    /\ pred_seq_logits' = <<>>
    /\ seq_i' = 0
    /\ nDecoder' = 0
    /\ broke' = FALSE
    /\ pc' = "loop"
    /\ UNCHANGED <<pred_eos>>
    /\ UNCHANGED notDecVars

\* end_lens += seq_i * (~end * stop_state)
EndLensEveryEos(lens, e, stop_state, s) ==
    [b \in DOMAIN lens |-> lens[b] + s * (IF stop_state[b] THEN 1 ELSE 0)]
EndLens(lens, e, stop_state, s) ==
    [b \in DOMAIN lens |->
        lens[b] + s * (IF ~e[b] /\ stop_state[b] THEN 1 ELSE 0)]

\* one iteration of the loop
DecodeStep ==
    /\ pc = "loop"
    /\ LoopRange(seq_i)
    /\ LET dec == DecoderForward(<<seq_i>>, pre_kv, training, NoMask)
       IN  /\ pre_kv' = dec.kv
           /\ attn' = dec.attn
    /\ nDecoder' = nDecoder + 1
    /\ \E sim \in StepSimilarities(bs, seq_i) :
        LET stop_state == [b \in 1..bs |-> IsEos(sim[b])]
            new_lens == EndLens(end_lens, end, stop_state, seq_i)
            new_end == [b \in 1..bs |-> stop_state[b] \/ end[b]]
        IN  /\ emitted' = [b \in 1..bs |-> emitted[b] \/ stop_state[b]]
            /\ firstEos' = [b \in 1..bs |->
                              IF pred_eos /\ firstEos[b] = -1 /\ stop_state[b]
                              THEN seq_i ELSE firstEos[b]]
            /\ end' = IF pred_eos THEN new_end ELSE end
            /\ end_lens' = IF pred_eos THEN new_lens ELSE end_lens
            /\ IF pred_eos /\ BreakCond(new_end, seq_i)
               THEN /\ pc' = "post"
                    /\ broke' = TRUE
                    /\ UNCHANGED <<seq_i, pred_seq_logits>>
               ELSE IF nucleus_sampling /\ SqueezedDim(bs) # 1
               THEN /\ pc' = "raised"
                    /\ UNCHANGED <<seq_i, pred_seq_logits, broke>>
               ELSE /\ pred_seq_logits' = Append(pred_seq_logits, seq_i)
                    /\ seq_i' = seq_i + 1
                    /\ pc' = IF LoopRange(seq_i + 1) THEN "loop" ELSE "post"
                    /\ UNCHANGED broke
    /\ UNCHANGED <<training, pred_eos, nucleus_sampling, bs, ret>>
    /\ UNCHANGED notDecVars

\* the code after the loop
Return ==
    /\ pc = "post"
    /\ LET lens == IF ~pred_eos THEN [b \in 1..bs |-> MaxLen] ELSE end_lens
       IN  /\ end_lens' = lens
           /\ ret' = [b \in 1..bs |-> Slice(pred_seq_logits, lens[b])]
    /\ pc' = "done"
    /\ UNCHANGED <<training, pred_eos, nucleus_sampling, bs, seq_i, end,
                   pre_kv, attn, pred_seq_logits, nDecoder, emitted,
                   firstEos, broke>>
    /\ UNCHANGED notDecVars

---------------------------------------------------------------------------
(* top_k_top_p_filtering.  A logit is an integer or NegInf; the softmax     *)
(* weight of the logit v is 2^v (the logits are multiples of ln 2), so that *)
(* probabilities are exact ratios of integers; top_p is top_p / PDen.       *)

\* filter_value = -float("Inf"), below every finite logit
NegInf == -1

LogitVals == {NegInf} \cup 0..MaxLogit

\* exp(v) up to the common scale: 2^v, and 0 for -inf
Weight(v) == IF v = NegInf THEN 0 ELSE 2 ^ v

Perms(n) == {p \in [1..n -> 1..n] : \A i, j \in 1..n : p[i] = p[j] => i = j}

\* torch.sort(logits, descending=True): the sort is not stable, any
\* permutation that orders the values may be returned
SortDescending(l) ==
    {p \in Perms(Len(l)) : \A i \in 1..(Len(l) - 1) : l[p[i]] >= l[p[i + 1]]}

\* torch.topk(logits, top_k)[0][..., -1, None]
KthLargest(l, k) == LET p == CHOOSE q \in SortDescending(l) : TRUE IN l[p[k]]

\* the comparison taken as <=
TopKFilterLE(l, k) ==
    LET kth == KthLargest(l, k)
    IN  [i \in 1..Len(l) |-> IF l[i] <= kth THEN NegInf ELSE l[i]]

\* logits[logits < kth] = filter_value
TopKFilter(l, k) ==
    LET kth == KthLargest(l, k)
    IN  [i \in 1..Len(l) |-> IF l[i] < kth THEN NegInf ELSE l[i]]

\* torch.cumsum(F.softmax(sorted_logits)), as numerators over the total
RECURSIVE CumWeight(_, _, _)
CumWeight(l, p, i) ==
    IF i = 0 THEN 0 ELSE CumWeight(l, p, i - 1) + Weight(l[p[i]])

\* the comparison taken as >=
AboveThresholdGE(c, total, tp) == c * PDen >= tp * total

\* cumulative_probs > top_p for the cumulative probability c / total
AboveThreshold(c, total, tp) == c * PDen > tp * total

\* the removal mask left as computed
NoShift(rem) == rem

\* sorted_indices_to_remove[..., 1:] = sorted_indices_to_remove[..., :-1]
\* sorted_indices_to_remove[..., 0] = 0
ShiftRight(rem) ==
    [i \in 1..Len(rem) |-> IF i = 1 THEN FALSE ELSE rem[i - 1]]

\* the body of `if top_p > 0.0` for the permutation p the sort returned
TopPFilter(l, p, tp) ==
    LET n == Len(l)
        total == CumWeight(l, p, n)
        rem == ShiftRight([i \in 1..n |->
                             AboveThreshold(CumWeight(l, p, i), total, tp)])
    IN  [i \in 1..n |->
           IF \E j \in 1..n : p[j] = i /\ rem[j] THEN NegInf ELSE l[i]]

\* the guard taken as >=
TopPEnabledGE(tp) == tp >= 0

\* if top_p > 0.0
TopPEnabled(tp) == tp > 0

\* one call of top_k_top_p_filtering on a 1-D vector
TopKTopPFiltering ==
    /\ f_pc = "call"
    /\ LET k == Min(top_k, Len(logits))
           afterK == IF k > 0 THEN TopKFilter(logits, k) ELSE logits
       IN  IF TopPEnabled(top_p)
           THEN \E p \in SortDescending(afterK) :
                    /\ logits' = TopPFilter(afterK, p, top_p)
                    /\ sorted_indices' = p
           ELSE /\ logits' = afterK
                /\ sorted_indices' = <<>>
    /\ f_pc' = "filtered"
    /\ UNCHANGED <<logits0, top_k, top_p>>
    /\ UNCHANGED notFilterVars

---------------------------------------------------------------------------
(* Part 3: the quantizers VectorQuantizer, GumbelQuantizer,                *)
(* DoubleGumbelQuantizer and CustomGumbelQuantizer.  Inputs and codebook   *)
(* entries are integer vectors.  The relaxed one-hot rows of               *)
(* F.gumbel_softmax are random; the model draws them from GumbelRows and   *)
(* keeps of a Gumbel quantizer's output, a mixture of codebook entries,    *)
(* only the shape.  The returned losses are not modelled.                  *)

QuantKinds == {"VectorQuantizer", "GumbelQuantizer",
               "DoubleGumbelQuantizer", "CustomGumbelQuantizer"}
\* largest num_embeddings
QCodes == 2
\* embedding_dim
QDim == 2
\* the coordinates of the inputs and of the codebook entries
QCoord == {0, 1}
\* the leading dimensions of inputs (the last one is embedding_dim)
LeadShapes == {<<1>>, <<2, 1>>}
\* the values of quant_num
QuantNums == {1, 5}
\* nn.Linear(embedding_dim*5, embedding_dim)
FusedParts == 5

RECURSIVE Numel(_)
Numel(shape) ==
    IF shape = <<>> THEN 1 ELSE Head(shape) * Numel(Tail(shape))

\* the number of rows of inputs.view(-1, d)
ViewRows(shape, d) == Numel(shape) \div d

RECURSIVE Dot(_, _, _)
Dot(u, v, d) == IF d = 0 THEN 0 ELSE u[d] * v[d] + Dot(u, v, d - 1)

\* torch.sum(flat_input**2, dim=1, keepdim=True)
\*   + torch.sum(weight**2, dim=1) - 2 * torch.matmul(flat_input, weight.t())
DistancesNoNorm(flat, W, n, d) ==
    [r \in 1..Len(flat) |->
        [c \in 0..(n - 1) |->
            Dot(flat[r], flat[r], d) - 2 * Dot(flat[r], W[c], d)]]
Distances(flat, W, n, d) ==
    [r \in 1..Len(flat) |->
        [c \in 0..(n - 1) |->
            Dot(flat[r], flat[r], d) + Dot(W[c], W[c], d)
                - 2 * Dot(flat[r], W[c], d)]]

\* torch.argmin(row): the first index holding the minimum
ArgMin(row, n) ==
    CHOOSE i \in 0..(n - 1) :
        /\ \A j \in 0..(n - 1) : row[i] <= row[j]
        /\ \A j \in 0..(i - 1) : row[i] < row[j]

\* encodings = torch.zeros(rows, n); encodings.scatter_(1, indices, 1)
Encodings(idx, n) ==
    [r \in 1..Len(idx) |-> [c \in 0..(n - 1) |-> IF c = idx[r] THEN 1 ELSE 0]]

RECURSIVE MatMulEntry(_, _, _, _)
MatMulEntry(row, W, k, n) ==
    IF n = 0 THEN 0
    ELSE row[n - 1] * W[n - 1][k] + MatMulEntry(row, W, k, n - 1)

\* torch.matmul(encodings, weight)
MatMul(enc, W, n, d) ==
    [r \in 1..Len(enc) |-> [k \in 1..d |-> MatMulEntry(enc[r], W, k, n)]]

\* the forward value of inputs + (quantized - inputs).detach()
StraightThrough(inputs, q, d) ==
    [r \in 1..Len(inputs) |->
        [k \in 1..d |-> inputs[r][k] + (q[r][k] - inputs[r][k])]]

VectorQuantizerForward ==
    /\ q_pc = "call"
    /\ q_kind = "VectorQuantizer"
    /\ LET distances ==
               Distances(flat_input, embedding, num_embeddings, QDim)
           idx == [r \in 1..Len(flat_input) |->
                      ArgMin(distances[r], num_embeddings)]
           encodings == Encodings(idx, num_embeddings)
           q == MatMul(encodings, embedding, num_embeddings, QDim)
       IN  /\ encoding_indices' = idx
           /\ quantized' = StraightThrough(flat_input, q, QDim)
    /\ quantized_shape' = input_shape
    /\ q_pc' = "done"
    /\ UNCHANGED <<q_kind, num_embeddings, embedding, quant_num,
                   input_shape, flat_input, q_i>>
    /\ UNCHANGED notQuantVars

\* a row of soft_one_hot over n codes
GumbelRow(n, c) == [i \in 0..(n - 1) |-> IF i = c THEN 1 ELSE 0]
\* the rows the model lets F.gumbel_softmax produce: the maximum at the
\* first code, at the last code, and all entries equal
GumbelRows(n) == {GumbelRow(n, 0), GumbelRow(n, n - 1), GumbelRow(n, n)}
GumbelSoftmax(rows, n) == [1..rows -> GumbelRows(n)]

\* soft_one_hot.argmax(dim=1)
SoftArgMaxOneBased(soft, n) ==
    [r \in 1..Len(soft) |-> ArgMax(soft[r], n) + 1]
SoftArgMax(soft, n) == [r \in 1..Len(soft) |-> ArgMax(soft[r], n)]

\* torch.einsum('b n, n d -> b d', soft_one_hot, weight): one mixture of
\* codebook entries per row
Mixture(rows) == [r \in 1..rows |-> "mixture"]

GumbelQuantizerForward ==
    /\ q_pc = "call"
    /\ q_kind = "GumbelQuantizer"
    /\ \E soft_one_hot \in GumbelSoftmax(Len(flat_input), num_embeddings) :
           encoding_indices' = SoftArgMax(soft_one_hot, num_embeddings)
    /\ quantized' = Mixture(Len(flat_input))
    /\ quantized_shape' = input_shape
    /\ q_pc' = "done"
    /\ UNCHANGED <<q_kind, num_embeddings, embedding, quant_num,
                   input_shape, flat_input, q_i>>
    /\ UNCHANGED notQuantVars

\* the shape of torch.cat of k tensors of the given shape along dim=-1
CatLast(shape, k) ==
    [i \in 1..Len(shape) |->
        IF i = Len(shape) THEN k * shape[i] ELSE shape[i]]

\* the shape nn.Linear(in_features, out_features) returns
LinearShape(shape, out_features) ==
    [i \in 1..Len(shape) |->
        IF i = Len(shape) THEN out_features ELSE shape[i]]

DoubleGumbelQuantizerForward ==
    /\ q_pc = "call"
    /\ q_kind = "DoubleGumbelQuantizer"
    /\ \E soft1, soft2 \in GumbelSoftmax(Len(flat_input), num_embeddings) :
           encoding_indices' = SoftArgMax(soft1, num_embeddings)
                                   \o SoftArgMax(soft2, num_embeddings)
    /\ quantized' = Mixture(Len(flat_input))
    /\ quantized_shape' = LinearShape(CatLast(input_shape, 2), QDim)
    /\ q_pc' = "done"
    /\ UNCHANGED <<q_kind, num_embeddings, embedding, quant_num,
                   input_shape, flat_input, q_i>>
    /\ UNCHANGED notQuantVars

\* one iteration of `for fc in self.fcs`
CustomGumbelQuantizerStep ==
    /\ q_pc = "call"
    /\ q_kind = "CustomGumbelQuantizer"
    /\ q_i < quant_num
    /\ \E soft_one_hot \in GumbelSoftmax(Len(flat_input), num_embeddings) :
           encoding_indices' =
               encoding_indices \o SoftArgMax(soft_one_hot, num_embeddings)
    /\ q_i' = q_i + 1
    /\ UNCHANGED <<q_pc, q_kind, num_embeddings, embedding, quant_num,
                   input_shape, flat_input, quantized, quantized_shape>>
    /\ UNCHANGED notQuantVars

\* the code after the loop: self.fc_out(torch.cat(quantized, dim=-1))
\* raises when the width of the concatenation is not fc_out.in_features
CustomGumbelQuantizerFuse ==
    /\ q_pc = "call"
    /\ q_kind = "CustomGumbelQuantizer"
    /\ q_i = quant_num
    /\ LET cat == CatLast(input_shape, quant_num)
       IN  IF cat[Len(cat)] # QDim * FusedParts
           THEN /\ q_pc' = "raised"
                /\ UNCHANGED <<quantized, quantized_shape>>
           ELSE /\ q_pc' = "done"
                /\ quantized' = Mixture(Len(flat_input))
                /\ quantized_shape' = LinearShape(cat, QDim)
    /\ UNCHANGED <<q_kind, num_embeddings, embedding, quant_num,
                   input_shape, flat_input, encoding_indices, q_i>>
    /\ UNCHANGED notQuantVars

\* a codebook of n entries: nn.Embedding(num_embeddings, embedding_dim)
Codebooks(n) == [0..(n - 1) -> [1..QDim -> QCoord]]
\* the codebook the model gives a Gumbel quantizer, whose output values
\* are not modelled
UnitCodebook(n) == [c \in 0..(n - 1) |-> [k \in 1..QDim |-> 0]]

QuantIdle ==
    /\ q_pc = "idle"
    /\ q_kind = "VectorQuantizer"
    /\ num_embeddings = 1
    /\ embedding = UnitCodebook(1)
    /\ quant_num = 1
    /\ input_shape = <<1, QDim>>
    /\ flat_input = <<[k \in 1..QDim |-> 0]>>
    /\ quantized = <<>>
    /\ quantized_shape = <<>>
    /\ encoding_indices = <<>>
    /\ q_i = 0

\* a call of a quantizer of any class on any input of the bounded sets
QuantCall ==
    /\ q_pc = "call"
    /\ q_kind \in QuantKinds
    /\ num_embeddings \in 1..QCodes
    /\ embedding \in IF q_kind = "VectorQuantizer"
                     THEN Codebooks(num_embeddings)
                     ELSE {UnitCodebook(num_embeddings)}
    /\ quant_num \in IF q_kind = "CustomGumbelQuantizer"
                     THEN QuantNums ELSE {1}
    /\ \E lead \in LeadShapes : input_shape = lead \o <<QDim>>
    /\ flat_input \in [1..ViewRows(input_shape, QDim) -> [1..QDim -> QCoord]]
    /\ quantized = <<>>
    /\ quantized_shape = <<>>
    /\ encoding_indices = <<>>
    /\ q_i = 0

---------------------------------------------------------------------------
(* Part 4: DeformableDetrTransformer.gen_encoder_output_proposals and the  *)
(* selection of the two-stage proposals in forward, for one sample of the  *)
(* batch (the samples do not interact).  A proposal coordinate is the      *)
(* exact fraction <<n, d>>, d = 0 standing for +inf; a logarithm is kept   *)
(* as its argument: a fraction <<n, d>> of positive n and d when finite,   *)
(* <<1, 0>> when +inf and <<0, 0>> when NaN.  A row of memory is named by  *)
(* its position, the zero row by 0.                                        *)

\* the lists of feature map shapes (H, W), one per level
SpatialShapes ==
    { << <<2, 2>> >>,
      << <<1, 2>>, <<2, 1>> >>,
      << <<1, 1>>, <<1, 1>>, <<1, 1>>, <<1, 1>>, <<1, 1>>, <<1, 1>> >> }
\* largest two_stage_num_proposals
MaxProposals == 2
\* the values of an objectness logit
ScoreVals == {0, 1}

RECURSIVE NumKeys(_)
NumKeys(shapes) ==
    IF shapes = <<>> THEN 0
    ELSE Head(shapes)[1] * Head(shapes)[2] + NumKeys(Tail(shapes))

\* _cur at the start of level lvl (0-based)
LevelStart(shapes, lvl) == NumKeys(SubSeq(shapes, 1, lvl))

\* the level (0-based) holding position s (0-based)
LevelOf(shapes, s) ==
    CHOOSE lvl \in 0..(Len(shapes) - 1) :
        /\ LevelStart(shapes, lvl) <= s
        /\ s < LevelStart(shapes, lvl + 1)

\* mask_flatten_[y, x] of a level: memory_padding_mask[_cur + y * W + x]
MaskAt(mask, shapes, lvl, y, x) ==
    mask[LevelStart(shapes, lvl) + y * shapes[lvl + 1][2] + x + 1]

\* torch.sum(~mask_flatten_[:, :, 0, 0], 1)
ValidH(mask, shapes, lvl) ==
    Cardinality({y \in 0..(shapes[lvl + 1][1] - 1) :
                     ~MaskAt(mask, shapes, lvl, y, 0)})
\* torch.sum(~mask_flatten_[:, 0, :, 0], 1)
ValidW(mask, shapes, lvl) ==
    Cardinality({x \in 0..(shapes[lvl + 1][2] - 1) :
                     ~MaskAt(mask, shapes, lvl, 0, x)})

RECURSIVE Pow2(_)
Pow2(n) == IF n = 0 THEN 1 ELSE 2 * Pow2(n - 1)

\* torch.cat((grid, wh), -1) at position s, grid = (grid + 0.5) / scale
\* and wh = 0.05 * 2.0 ** lvl
Proposal(mask, shapes, s) ==
    LET lvl == LevelOf(shapes, s)
        off == s - LevelStart(shapes, lvl)
        W == shapes[lvl + 1][2]
        y == off \div W
        x == off % W
    IN  << <<2 * x + 1, 2 * ValidW(mask, shapes, lvl)>>,
           <<2 * y + 1, 2 * ValidH(mask, shapes, lvl)>>,
           <<5 * Pow2(lvl), 100>>,
           <<5 * Pow2(lvl), 100>> >>

\* p > 0.01 and p < 0.99 (x / 0 is +inf)
Above001(p) == p[2] = 0 \/ p[1] * 100 > p[2]
Below099(p) == p[2] # 0 /\ p[1] * 100 < 99 * p[2]

\* ((output_proposals > 0.01) & (output_proposals < 0.99)).all(-1)
ProposalValidNoUpper(prop) == \A k \in 1..4 : Above001(prop[k])
ProposalValid(prop) == \A k \in 1..4 : Above001(prop[k]) /\ Below099(prop[k])

\* torch.log(p / (1 - p))
PosInf == <<1, 0>>
NaN == <<0, 0>>
LogOdds(p) ==
    IF p[2] = 0 \/ p[1] > p[2] THEN NaN
    ELSE IF p[1] = p[2] THEN PosInf
    ELSE <<p[1], p[2] - p[1]>>

\* t.masked_fill(m, v) at one position
MaskedFill(t, m, v) == IF m THEN v ELSE t

Inf4 == <<PosInf, PosInf, PosInf, PosInf>>

GenEncoderOutputProposals ==
    /\ p_pc = "call"
    /\ LET S == NumKeys(spatial_shapes)
           prop(s) == Proposal(memory_padding_mask, spatial_shapes, s - 1)
           valid == [s \in 1..S |-> ProposalValid(prop(s))]
           unact == [s \in 1..S |-> [k \in 1..4 |-> LogOdds(prop(s)[k])]]
       IN  /\ output_proposals' =
                  [s \in 1..S |->
                      MaskedFill(
                          MaskedFill(unact[s], memory_padding_mask[s], Inf4),
                          ~valid[s], Inf4)]
           /\ output_memory' =
                  [s \in 1..S |->
                      MaskedFill(
                          MaskedFill(memory[s], memory_padding_mask[s], 0),
                          ~valid[s], 0)]
    /\ p_pc' = "proposals"
    /\ UNCHANGED <<spatial_shapes, memory_padding_mask, memory,
                   two_stage_num_proposals, enc_outputs_class,
                   topk_proposals>>
    /\ UNCHANGED notPropVars

\* the objectness logits cls_branches[num_layers] may give the projected
\* output_memory: the rows projected from the zero row share one logit
ClassLogits(out_mem) ==
    {c \in [1..Len(out_mem) -> ScoreVals] :
        \A s, t \in 1..Len(out_mem) :
            (out_mem[s] = 0 /\ out_mem[t] = 0) => c[s] = c[t]}

\* torch.topk(scores, k, dim=1)[1]: k distinct positions (0-based) in
\* descending order of their scores, none smaller than an unselected one;
\* ties are broken in any way
TopKIndices(scores, k) ==
    {sel \in [1..k -> 0..(Len(scores) - 1)] :
        /\ \A i, j \in 1..k : sel[i] = sel[j] => i = j
        /\ \A i \in 1..(k - 1) : scores[sel[i] + 1] >= scores[sel[i + 1] + 1]
        /\ \A s \in 0..(Len(scores) - 1) :
               (\A i \in 1..k : sel[i] # s) =>
                   \A i \in 1..k : scores[sel[i] + 1] >= scores[s + 1]}

\* forward, `if self.as_two_stage:` up to the selection of the proposals;
\* torch.topk raises when k exceeds the number of positions
TwoStageTopK ==
    /\ p_pc = "proposals"
    /\ IF two_stage_num_proposals > Len(output_memory)
       THEN /\ p_pc' = "raised"
            /\ UNCHANGED <<enc_outputs_class, topk_proposals>>
       ELSE /\ \E cls \in ClassLogits(output_memory) :
                   /\ enc_outputs_class' = cls
                   /\ topk_proposals'
                          \in TopKIndices(cls, two_stage_num_proposals)
            /\ p_pc' = "done"
    /\ UNCHANGED <<spatial_shapes, memory_padding_mask, memory,
                   two_stage_num_proposals, output_proposals, output_memory>>
    /\ UNCHANGED notPropVars

PropIdle ==
    /\ p_pc = "idle"
    /\ spatial_shapes = << <<1, 1>> >>
    /\ memory_padding_mask = <<FALSE>>
    /\ memory = <<1>>
    /\ two_stage_num_proposals = 1
    /\ output_proposals = <<>>
    /\ output_memory = <<>>
    /\ enc_outputs_class = <<>>
    /\ topk_proposals = <<>>

\* the encoder has returned memory for feature maps of any of the shapes
\* under any padding mask
PropCall ==
    /\ p_pc = "call"
    /\ spatial_shapes \in SpatialShapes
    /\ memory_padding_mask \in [1..NumKeys(spatial_shapes) -> BOOLEAN]
    /\ memory = [s \in 1..NumKeys(spatial_shapes) |-> s]
    /\ two_stage_num_proposals \in 1..MaxProposals
    /\ output_proposals = <<>>
    /\ output_memory = <<>>
    /\ enc_outputs_class = <<>>
    /\ topk_proposals = <<>>

---------------------------------------------------------------------------
(* Part 5: inverse_sigmoid and Tensor.sigmoid on one element, in exact     *)
(* arithmetic.  A number is a fraction <<n, d>> with d >= 0; <<1, 0>> is   *)
(* +inf and <<-1, 0>> is -inf.  A logit (the argument of sigmoid, the      *)
(* result of inverse_sigmoid) is kept as its exponential, so that          *)
(* log(x1 / x2) is the fraction x1 / x2, 0 is <<1, 1>>, -inf is <<0, 1>>   *)
(* and +inf is <<1, 0>>.  Floating-point rounding is not modelled.         *)

\* the denominators of the inputs are 1..FracDen
FracDen == 4
\* the model's value of 1 / eps for the default eps of inverse_sigmoid
\* (1e-5 in the source), small enough for the products of the model
DefaultEpsInv == 100

Abs(n) == IF n < 0 THEN -n ELSE n

RECURSIVE GCD(_, _)
GCD(a, b) == IF b = 0 THEN a ELSE GCD(b, a % b)

\* the fraction in lowest terms
Reduce(p) ==
    LET g == GCD(Abs(p[1]), p[2])
    IN  IF g = 0 THEN p ELSE <<p[1] \div g, p[2] \div g>>

FLess(p, q) == p[1] * q[2] < q[1] * p[2]
FLeq(p, q) == p[1] * q[2] <= q[1] * p[2]
FEq(p, q) == p[1] * q[2] = q[1] * p[2]

Zero == <<0, 1>>
One == <<1, 1>>

\* x.clamp(min=lo)
ClampMinNone(p, lo) == p
ClampMin(p, lo) == IF FLess(p, lo) THEN lo ELSE p
\* x.clamp(max=hi)
ClampMax(p, hi) == IF FLess(hi, p) THEN hi ELSE p

\* 1 - x for a finite x
OneMinusNone(p) == p
OneMinus(p) == <<p[2] - p[1], p[2]>>

\* x1 / x2
FDiv(p, q) == Reduce(<<p[1] * q[2], p[2] * q[1]>>)
\* the sum of two logits, as the product of their exponentials
FMul(p, q) == Reduce(<<p[1] * q[1], p[2] * q[2]>>)

\* x = x.clamp(min=0, max=1)
Clamp01(x) == ClampMax(ClampMin(x, Zero), One)
\* x1 = x.clamp(min=eps)
InverseSigmoidX1(x, eps) == ClampMin(Clamp01(x), eps)
\* x2 = (1 - x).clamp(min=eps)
InverseSigmoidX2(x, eps) == ClampMin(OneMinus(Clamp01(x)), eps)
\* torch.log(x1 / x2), as the exponential of the result
InverseSigmoid(x, eps) ==
    FDiv(InverseSigmoidX1(x, eps), InverseSigmoidX2(x, eps))

\* Tensor.sigmoid of the logit with exponential e: e / (1 + e)
SigmoidOfExp(e) == Reduce(<<e[1], e[1] + e[2]>>)

\* the default eps of inverse_sigmoid
DefaultEps == <<1, DefaultEpsInv>>

\* the values of x: the fractions of -1 .. 2 and the two infinities
XVals ==
    {<<n, d>> : n \in (-FracDen)..(2 * FracDen), d \in 1..FracDen}
        \cup {<<1, 0>>, <<-1, 0>>}
\* the logits: every quotient of 0..FracDen, with -inf and +inf
Logits ==
    {Reduce(<<a, b>>) : a \in 0..FracDen, b \in 0..FracDen} \ {<<0, 0>>}
\* the values of eps: the fractions of (0, 1/2] and the default
EpsVals ==
    {e \in {<<n, d>> : n \in 1..FracDen, d \in 1..(FracDen + 1)} :
        2 * e[1] <= e[2]} \cup {DefaultEps}

\* x = y.sigmoid() for a logit y
SigmoidCall ==
    /\ s_pc = "sigmoid"
    /\ s_x' = SigmoidOfExp(s_y)
    /\ s_pc' = "inverse"
    /\ UNCHANGED <<s_fromSigmoid, s_y, s_eps, s_x1, s_x2, s_out>>
    /\ UNCHANGED notSigVars

\* inverse_sigmoid(x, eps)
InverseSigmoidCall ==
    /\ s_pc = "inverse"
    /\ s_x1' = InverseSigmoidX1(s_x, s_eps)
    /\ s_x2' = InverseSigmoidX2(s_x, s_eps)
    /\ s_out' = InverseSigmoid(s_x, s_eps)
    /\ s_pc' = "done"
    /\ UNCHANGED <<s_fromSigmoid, s_y, s_x, s_eps>>
    /\ UNCHANGED notSigVars

SigIdle ==
    /\ s_pc = "idle"
    /\ s_fromSigmoid = FALSE
    /\ s_y = One
    /\ s_x = Zero
    /\ s_eps = DefaultEps
    /\ s_x1 = Zero
    /\ s_x2 = Zero
    /\ s_out = One

\* inverse_sigmoid is called on any x, or on the sigmoid of any logit
SigCall ==
    /\ s_fromSigmoid \in BOOLEAN
    /\ s_pc = IF s_fromSigmoid THEN "sigmoid" ELSE "inverse"
    /\ s_y \in IF s_fromSigmoid THEN Logits ELSE {One}
    /\ s_x \in IF s_fromSigmoid THEN {Zero} ELSE XVals
    /\ s_eps \in EpsVals
    /\ s_x1 = Zero
    /\ s_x2 = Zero
    /\ s_out = One

---------------------------------------------------------------------------
(* Part 6: DeformableDetrTransformerDecoder.forward for the reference      *)
(* point of one query and one feature level, with the fractions and the    *)
(* logits of Part 5.  A decoder layer's output is named by the layer.      *)

\* the values of len(self.layers)
DeformLayers == {1, 2, 3}
\* the widths of the output of a regression branch
RegWidths == {2, 4}

\* a row of the given width alternating the values a and b
Alternate(w, a, b) == [k \in 1..w |-> IF k % 2 = 1 THEN a ELSE b]

\* the reference points handed to forward: sigmoid outputs and proposals
RefRows(w) ==
    {Alternate(w, Zero, Zero), Alternate(w, One, One),
     Alternate(w, <<1, 2>>, <<1, 4>>)}
\* the rows a regression branch returns, as logits: all -inf, all +inf,
\* log 2 alternating with -log 2
TmpRows(w) ==
    {Alternate(w, <<0, 1>>, <<0, 1>>), Alternate(w, <<1, 0>>, <<1, 0>>),
     Alternate(w, <<2, 1>>, <<1, 2>>)}
\* valid_ratios of the level: (ratio of w, ratio of h)
ValidRatios == {<<One, One>>, << <<1, 2>>, <<3, 4>> >>}

\* reference_points[:, :, None] * valid_ratios[:, None], and for four
\* coordinates * torch.cat([valid_ratios, valid_ratios], -1)[:, None]
ReferencePointsInput(ref, vr) ==
    [k \in 1..Len(ref) |-> FMul(ref[k], vr[((k - 1) % 2) + 1])]

\* (tmp + inverse_sigmoid(reference_points)).sigmoid()
RefineNoSigmoid(tmp, ref) ==
    [k \in 1..Len(ref) |-> FMul(tmp[k], InverseSigmoid(ref[k], DefaultEps))]
Refine4(tmp, ref) ==
    [k \in 1..Len(ref) |->
        SigmoidOfExp(FMul(tmp[k], InverseSigmoid(ref[k], DefaultEps)))]

\* new_reference_points = tmp
\* new_reference_points[..., :2] = tmp[..., :2] + inverse_sigmoid(ref)
\* new_reference_points = new_reference_points.sigmoid()
Refine2KeepTwo(tmp, ref) ==
    [k \in 1..Len(ref) |->
        SigmoidOfExp(FMul(tmp[k], InverseSigmoid(ref[k], DefaultEps)))]
Refine2(tmp, ref) ==
    [k \in 1..Len(tmp) |->
        SigmoidOfExp(IF k <= 2
                     THEN FMul(tmp[k], InverseSigmoid(ref[k], DefaultEps))
                     ELSE tmp[k])]

\* one iteration of `for lid, layer in enumerate(self.layers)`; the
\* addition of a two-wide tmp and four-wide reference points raises
DeformDecoderLayer ==
    /\ d_pc = "loop"
    /\ d_lid < d_num_layers
    /\ reference_points_input' =
           ReferencePointsInput(reference_points, valid_ratios)
    /\ IF reg_width = 0
       THEN /\ d_pc' = "loop"
            /\ UNCHANGED reference_points
       ELSE \E tmp \in TmpRows(reg_width) :
                IF Len(reference_points) = 4
                THEN IF reg_width # 4
                     THEN /\ d_pc' = "raised"
                          /\ UNCHANGED reference_points
                     ELSE /\ d_pc' = "loop"
                          /\ reference_points' = Refine4(tmp, reference_points)
                ELSE /\ d_pc' = "loop"
                     /\ reference_points' = Refine2(tmp, reference_points)
    /\ IF d_return_intermediate /\ d_pc' = "loop"
       THEN /\ intermediate' = Append(intermediate, d_lid)
            /\ intermediate_reference_points' =
                   Append(intermediate_reference_points, reference_points')
       ELSE UNCHANGED <<intermediate, intermediate_reference_points>>
    /\ d_lid' = IF d_pc' = "loop" THEN d_lid + 1 ELSE d_lid
    /\ UNCHANGED <<d_num_layers, reg_width, d_return_intermediate,
                   valid_ratios, d_ret>>
    /\ UNCHANGED notDeformVars

\* the code after the loop: the stacked intermediate reference points, or
\* the reference points of the last layer alone
DeformDecoderReturn ==
    /\ d_pc = "loop"
    /\ d_lid = d_num_layers
    /\ d_ret' = IF d_return_intermediate
                THEN intermediate_reference_points
                ELSE <<reference_points>>
    /\ d_pc' = "done"
    /\ UNCHANGED <<d_lid, d_num_layers, reference_points, reg_width,
                   d_return_intermediate, valid_ratios,
                   reference_points_input, intermediate,
                   intermediate_reference_points>>
    /\ UNCHANGED notDeformVars

DeformIdle ==
    /\ d_pc = "idle"
    /\ d_lid = 0
    /\ d_num_layers = 1
    /\ reference_points = <<Zero, Zero>>
    /\ reg_width = 0
    /\ d_return_intermediate = FALSE
    /\ valid_ratios = <<One, One>>
    /\ reference_points_input = <<>>
    /\ intermediate = <<>>
    /\ intermediate_reference_points = <<>>
    /\ d_ret = <<>>

\* forward is called with reference points of two or four coordinates in
\* [0, 1], with or without regression branches
DeformCall ==
    /\ d_pc = "loop"
    /\ d_lid = 0
    /\ d_num_layers \in DeformLayers
    /\ reference_points \in RefRows(2) \cup RefRows(4)
    /\ reg_width \in {0} \cup RegWidths
    /\ d_return_intermediate \in BOOLEAN
    /\ valid_ratios \in ValidRatios
    /\ reference_points_input = <<>>
    /\ intermediate = <<>>
    /\ intermediate_reference_points = <<>>
    /\ d_ret = <<>>

---------------------------------------------------------------------------
(* Part 7: AdaptivePadding on the two spatial sizes of its input.  Sizes,  *)
(* kernel, stride and dilation are pairs (h, w).  mmcv's to_2tuple returns *)
(* a string unchanged, so self.padding is the string passed in.            *)

\* largest input height and width
MaxInput == 4
\* largest kernel size
MaxKernel == 3
\* largest stride
MaxStride == 3
\* largest dilation
MaxDilation == 2

PaddingModes == {"same", "corner"}

\* the inputs of the example of the docstring: kernel_size = stride = 16,
\* dilation = 1, inputs of 15 x 17 and 16 x 17
DocKernel == <<16, 16>>
DocInputs == {<<15, 17>>, <<16, 17>>}

Max(a, b) == IF a > b THEN a ELSE b

\* math.ceil(a / b) for positive a and b
Ceil(a, b) == (a + b - 1) \div b

\* get_pad_shape for one dimension
PadOfNoMax(input, kernel, stride_, dilation_) ==
    (Ceil(input, stride_) - 1) * stride_ + (kernel - 1) * dilation_ + 1
        - input
PadOf(input, kernel, stride_, dilation_) ==
    Max((Ceil(input, stride_) - 1) * stride_ + (kernel - 1) * dilation_ + 1
            - input, 0)

\* get_pad_shape: (pad_h, pad_w)
GetPadShape(input_size, kernel, stride_, dilation_) ==
    <<PadOf(input_size[1], kernel[1], stride_[1], dilation_[1]),
      PadOf(input_size[2], kernel[2], stride_[2], dilation_[2])>>

\* the list handed to F.pad: (left, right, top, bottom)
CornerPad(ph, pw) == <<0, pw, 0, ph>>
SamePadCeil(ph, pw) ==
    <<pw - pw \div 2, pw \div 2, ph - ph \div 2, ph \div 2>>
SamePad(ph, pw) == <<pw \div 2, pw - pw \div 2, ph \div 2, ph - ph \div 2>>

\* the last two sizes of F.pad(x, pads)
Padded(input_size, pads) ==
    <<input_size[1] + pads[3] + pads[4], input_size[2] + pads[1] + pads[2]>>

\* the list AdaptivePadding.forward hands to F.pad, all zero if it does
\* not pad
AdaptivePads(input_size, kernel, stride_, dilation_, mode) ==
    LET pad == GetPadShape(input_size, kernel, stride_, dilation_)
        pad_h == pad[1]
        pad_w == pad[2]
    IN  IF pad_h > 0 \/ pad_w > 0
        THEN IF mode = "corner" THEN CornerPad(pad_h, pad_w)
             ELSE IF mode = "same" THEN SamePad(pad_h, pad_w)
             ELSE <<0, 0, 0, 0>>
        ELSE <<0, 0, 0, 0>>

AdaptivePaddingForward ==
    /\ a_pc = "call"
    /\ a_pads' = AdaptivePads(a_input, kernel_size, stride, dilation, padding)
    /\ a_output' = Padded(a_input, a_pads')
    /\ a_pc' = "done"
    /\ UNCHANGED <<kernel_size, stride, dilation, padding, a_input>>
    /\ UNCHANGED notPadVars

\* forward applied to the tensor the first application returned
AdaptivePaddingAgain ==
    /\ a_pc = "done"
    /\ a_input' = a_output
    /\ a_pads' =
           AdaptivePads(a_output, kernel_size, stride, dilation, padding)
    /\ a_output' = Padded(a_output, a_pads')
    /\ a_pc' = "twice"
    /\ UNCHANGED <<kernel_size, stride, dilation, padding>>
    /\ UNCHANGED notPadVars

PadIdle ==
    /\ a_pc = "idle"
    /\ kernel_size = <<1, 1>>
    /\ stride = <<1, 1>>
    /\ dilation = <<1, 1>>
    /\ padding = "corner"
    /\ a_input = <<1, 1>>
    /\ a_pads = <<0, 0, 0, 0>>
    /\ a_output = <<1, 1>>

\* an AdaptivePadding of any kernel, stride, dilation and mode is applied
\* to an input of any size of the bounded sets, or to the docstring's
PadCall ==
    /\ a_pc = "call"
    /\ padding \in PaddingModes
    /\ \/ /\ kernel_size \in (1..MaxKernel) \X (1..MaxKernel)
          /\ stride \in (1..MaxStride) \X (1..MaxStride)
          /\ dilation \in (1..MaxDilation) \X (1..MaxDilation)
          /\ a_input \in (1..MaxInput) \X (1..MaxInput)
       \/ /\ kernel_size = DocKernel
          /\ stride = DocKernel
          /\ dilation = <<1, 1>>
          /\ a_input \in DocInputs
    /\ a_pads = <<0, 0, 0, 0>>
    /\ a_output = a_input

---------------------------------------------------------------------------
(* Part 8: DetrTransformerDecoder.forward.  A tensor is kept as its shape  *)
(* and, along its leading dimension, the layers whose outputs it holds.    *)

\* largest number of decoder layers
MaxDetrLayers == 3
\* largest num_query
MaxQuery == 3
\* the shapes (num_query, bs, embed_dims) of query
QueryShapes == {<<q, b, 4>> : q \in 1..MaxQuery, b \in 1..2}

\* x[None]: a new leading dimension of size 1
IndexNone(shape) == <<1>> \o shape

\* torch.stack of n tensors of one shape
StackShape(n, shape) == <<n>> \o shape

\* `if not self.return_intermediate:` the layers are run by the base class,
\* and the result gets its leading dimension only inside `if self.post_norm`
DetrDecoderForwardLast ==
    /\ t_pc = "call"
    /\ ~t_return_intermediate
    /\ t_ret_shape' = IF t_post_norm THEN IndexNone(t_query_shape)
                      ELSE t_query_shape
    /\ t_ret_layers' = <<t_num_layers>>
    /\ t_pc' = "done"
    /\ UNCHANGED <<t_return_intermediate, t_post_norm, t_num_layers,
                   t_query_shape, t_intermediate>>
    /\ UNCHANGED notDetrVars

\* one iteration of `for layer in self.layers`
DetrDecoderLayer ==
    /\ t_pc = "call"
    /\ t_return_intermediate
    /\ Len(t_intermediate) < t_num_layers
    /\ t_intermediate' = Append(t_intermediate, Len(t_intermediate) + 1)
    /\ UNCHANGED <<t_pc, t_return_intermediate, t_post_norm, t_num_layers,
                   t_query_shape, t_ret_shape, t_ret_layers>>
    /\ UNCHANGED notDetrVars

\* return torch.stack(intermediate)
DetrDecoderStack ==
    /\ t_pc = "call"
    /\ t_return_intermediate
    /\ Len(t_intermediate) = t_num_layers
    /\ t_ret_shape' = StackShape(Len(t_intermediate), t_query_shape)
    /\ t_ret_layers' = t_intermediate
    /\ t_pc' = "done"
    /\ UNCHANGED <<t_return_intermediate, t_post_norm, t_num_layers,
                   t_query_shape, t_intermediate>>
    /\ UNCHANGED notDetrVars

DetrIdle ==
    /\ t_pc = "idle"
    /\ t_return_intermediate = FALSE
    /\ t_post_norm = TRUE
    /\ t_num_layers = 1
    /\ t_query_shape = <<1, 1, 4>>
    /\ t_intermediate = <<>>
    /\ t_ret_shape = <<>>
    /\ t_ret_layers = <<>>

\* a decoder built with any post_norm_cfg (None or a norm layer) and any
\* return_intermediate is called on a query of any of the shapes
DetrCall ==
    /\ t_pc = "call"
    /\ t_return_intermediate \in BOOLEAN
    /\ t_post_norm \in BOOLEAN
    /\ t_num_layers \in 1..MaxDetrLayers
    /\ t_query_shape \in QueryShapes
    /\ t_intermediate = <<>>
    /\ t_ret_shape = <<>>
    /\ t_ret_layers = <<>>

---------------------------------------------------------------------------
(* Part 9: the shape helpers nlc_to_nchw and nchw_to_nlc, and the forward  *)
(* passes of PatchEmbed and PatchMerging.  The two layers are built with   *)
(* a string padding, so each owns an AdaptivePadding (the variables of     *)
(* Part 7) and hands padding = (0, 0) to its convolution or nn.Unfold;     *)
(* kernel_size, stride and dilation are given as ints, which to_2tuple     *)
(* turns into square pairs.  A tensor is kept as its shape.                *)

PatchOps == {"nlc_to_nchw", "nchw_to_nlc", "PatchEmbed", "PatchMerging"}

\* the sizes of one dimension of a tensor handed to the shape helpers
DimVals == {1, 2, 4}
\* the shapes handed to the shape helpers: 2 to 4 dimensions
XShapes == UNION {[1..n -> DimVals] : n \in 2..4}
\* the (H, W) handed to nlc_to_nchw
HWShapes == (1..2) \X (1..2)
\* embed_dims of PatchEmbed, out_channels of PatchMerging
EmbedDims == 3
\* None
None == <<>>

\* L == H * W
TokenCountAtMost(L, hw) == L <= hw[1] * hw[2]
TokenCountMatches(L, hw) == L = hw[1] * hw[2]

NlcToNchw ==
    /\ m_pc = "call"
    /\ m_op = "nlc_to_nchw"
    /\ IF Len(x_shape) = 3 /\ TokenCountMatches(x_shape[2], hw_shape)
       THEN /\ m_ret_shape' =
                   <<x_shape[1], x_shape[3], hw_shape[1], hw_shape[2]>>
            /\ m_pc' = "done"
       ELSE /\ m_pc' = "raised"
            /\ UNCHANGED m_ret_shape
    /\ UNCHANGED <<m_op, x_shape, hw_shape, init_out_size, out_size>>
    /\ UNCHANGED notPatchVars

NchwToNlc ==
    /\ m_pc = "call"
    /\ m_op = "nchw_to_nlc"
    /\ IF Len(x_shape) = 4
       THEN /\ m_ret_shape' =
                   <<x_shape[1], x_shape[3] * x_shape[4], x_shape[2]>>
            /\ m_pc' = "done"
       ELSE /\ m_pc' = "raised"
            /\ UNCHANGED m_ret_shape
    /\ UNCHANGED <<m_op, x_shape, hw_shape, init_out_size, out_size>>
    /\ UNCHANGED notPatchVars

\* the output size of a convolution or of nn.Unfold along one dimension
ConvOutNoDilation(size, pad, kernel, stride_, dilation_) ==
    (size + 2 * pad - (kernel - 1) - 1) \div stride_ + 1
ConvOut(size, pad, kernel, stride_, dilation_) ==
    (size + 2 * pad - dilation_ * (kernel - 1) - 1) \div stride_ + 1

\* the (h_out, w_out) of an input of the given size with padding (0, 0)
ConvOutSize(size, kernel, stride_, dilation_) ==
    <<ConvOut(size[1], 0, kernel[1], stride_[1], dilation_[1]),
      ConvOut(size[2], 0, kernel[2], stride_[2], dilation_[2])>>

\* self.init_out_size of a PatchEmbed built with the given input_size
InitOutSize(input_size, kernel, stride_, dilation_) ==
    IF input_size = None THEN None
    ELSE LET pad == GetPadShape(input_size, kernel, stride_, dilation_)
             padded == <<input_size[1] + pad[1], input_size[2] + pad[2]>>
         IN  ConvOutSize(padded, kernel, stride_, dilation_)

\* x = self.adap_padding(x), followed by the convolution or nn.Unfold
PadAndSample(size) ==
    /\ a_input' = size
    /\ a_pads' = AdaptivePads(size, kernel_size, stride, dilation, padding)
    /\ a_output' = Padded(size, a_pads')
    /\ a_pc' = "done"
    /\ out_size' = ConvOutSize(a_output', kernel_size, stride, dilation)
    /\ m_ret_shape' = <<x_shape[1], out_size'[1] * out_size'[2], EmbedDims>>
    /\ m_pc' = "done"

PatchEmbedForward ==
    /\ m_pc = "call"
    /\ m_op = "PatchEmbed"
    /\ PadAndSample(<<x_shape[3], x_shape[4]>>)
    /\ UNCHANGED <<m_op, x_shape, hw_shape, init_out_size>>
    /\ UNCHANGED <<kernel_size, stride, dilation, padding>>
    /\ UNCHANGED notPatchPadVars

PatchMergingForward ==
    /\ m_pc = "call"
    /\ m_op = "PatchMerging"
    /\ IF TokenCountMatches(x_shape[2], hw_shape)
       THEN PadAndSample(hw_shape)
       ELSE /\ m_pc' = "raised"
            /\ UNCHANGED <<a_pc, a_input, a_pads, a_output, out_size,
                           m_ret_shape>>
    /\ UNCHANGED <<m_op, x_shape, hw_shape, init_out_size>>
    /\ UNCHANGED <<kernel_size, stride, dilation, padding>>
    /\ UNCHANGED notPatchPadVars

PatchIdle ==
    /\ m_pc = "idle"
    /\ m_op = "nlc_to_nchw"
    /\ x_shape = <<1, 1, 1>>
    /\ hw_shape = <<1, 1>>
    /\ init_out_size = None
    /\ m_ret_shape = <<>>
    /\ out_size = None

\* the AdaptivePadding of a layer built with ints
LayerBuilt ==
    /\ a_pc = "idle"
    /\ padding \in PaddingModes
    /\ \E k \in 1..MaxKernel : kernel_size = <<k, k>>
    /\ \E s \in 1..MaxStride : stride = <<s, s>>
    /\ \E d \in 1..MaxDilation : dilation = <<d, d>>
    /\ a_input = <<1, 1>>
    /\ a_pads = <<0, 0, 0, 0>>
    /\ a_output = <<1, 1>>

\* a shape helper is called on a tensor of any of the shapes; a
\* PatchMerging is called on B x L x C tokens with L around H * W; a
\* PatchEmbed built without input_size or with the size of its input is
\* called on a B x C x H x W image
PatchCall ==
    /\ m_pc = "call"
    /\ m_ret_shape = <<>>
    /\ out_size = None
    /\ \/ /\ m_op = "nlc_to_nchw"
          /\ x_shape \in XShapes
          /\ hw_shape \in HWShapes
          /\ init_out_size = None
          /\ PadIdle
       \/ /\ m_op = "nchw_to_nlc"
          /\ x_shape \in XShapes
          /\ hw_shape = <<1, 1>>
          /\ init_out_size = None
          /\ PadIdle
       \/ /\ m_op = "PatchMerging"
          /\ LayerBuilt
          /\ hw_shape \in (1..MaxInput) \X (1..MaxInput)
          /\ \E e \in {-1, 0, 1} :
                 x_shape = <<1, hw_shape[1] * hw_shape[2] + e, 2>>
          /\ init_out_size = None
       \/ /\ m_op = "PatchEmbed"
          /\ LayerBuilt
          /\ \E size \in (1..MaxInput) \X (1..MaxInput) :
                 /\ x_shape = <<1, 3, size[1], size[2]>>
                 /\ hw_shape \in {None, size}
          /\ init_out_size =
                 InitOutSize(hw_shape, kernel_size, stride, dilation)

---------------------------------------------------------------------------
(* Part 10: the end-of-sequence test and the greedy choice of the next     *)
(* token of one decode step, as functions of one sample's row of           *)
(* `similarity` with any logits.                                           *)

\* the rows of the classifier: any logits 0..MaxLogit for the classes
AnyRows == [0..(NumVocal - 1) -> 0..MaxLogit]

\* the bookkeeping and the `else` branch of `if nucleus_sampling` of one
\* iteration, for one sample
GreedyStep ==
    /\ g_pc = "call"
    /\ g_stop_state' = IF pred_eos THEN IsEos(g_row) ELSE FALSE
    /\ g_pred_token' = GreedyToken(g_row)
    /\ g_pc' = "done"
    /\ UNCHANGED g_row
    /\ UNCHANGED notTokenVars

TokenIdle ==
    /\ g_pc = "idle"
    /\ g_row = OneHot(0)
    /\ g_stop_state = FALSE
    /\ g_pred_token = 0

\* the classifier has produced any row for the sample
TokenCall ==
    /\ g_pc = "call"
    /\ g_row \in AnyRows
    /\ g_stop_state = FALSE
    /\ g_pred_token = 0

---------------------------------------------------------------------------

FilterInitIdle ==
    /\ f_pc = "filtered"
    /\ logits0 = <<0>>
    /\ logits = <<0>>
    /\ top_k = 0
    /\ top_p = 0
    /\ sorted_indices = <<>>

DecodeInit ==
    /\ pc = "idle"
    /\ training = TRUE
    /\ pred_eos \in BOOLEAN
    /\ nucleus_sampling = FALSE
    /\ bs = 1
    /\ seq_i = 0
    /\ end = [b \in 1..1 |-> FALSE]
    /\ end_lens = [b \in 1..1 |-> 0]
    /\ pre_kv = EmptyKV
    /\ attn = [l \in 1..NumLayers |-> <<>>]
    /\ pred_seq_logits = <<>>
    /\ ret = [b \in 1..1 |-> <<>>]
    /\ nDecoder = 0
    /\ emitted = [b \in 1..1 |-> FALSE]
    /\ firstEos = [b \in 1..1 |-> -1]
    /\ broke = FALSE

Init ==
    /\ DecodeInit
    /\ FilterInitIdle
    /\ QuantIdle
    /\ PropIdle
    /\ SigIdle
    /\ DeformIdle
    /\ PadIdle
    /\ DetrIdle
    /\ PatchIdle
    /\ TokenIdle

\* a call of top_k_top_p_filtering with any arguments of the bounded sets
InitFilter ==
    /\ DecodeInit
    /\ pred_eos = FALSE
    /\ f_pc = "call"
    /\ logits0 \in UNION {[1..n -> LogitVals] : n \in 1..MaxVocab}
    /\ logits = logits0
    /\ top_k \in 0..(MaxVocab + 1)
    /\ top_p \in 0..(PDen + 1)
    /\ sorted_indices = <<>>
    /\ QuantIdle
    /\ PropIdle
    /\ SigIdle
    /\ DeformIdle
    /\ PadIdle
    /\ DetrIdle
    /\ PatchIdle
    /\ TokenIdle

InitQuant ==
    /\ DecodeInit
    /\ pred_eos = FALSE
    /\ FilterInitIdle
    /\ QuantCall
    /\ PropIdle
    /\ SigIdle
    /\ DeformIdle
    /\ PadIdle
    /\ DetrIdle
    /\ PatchIdle
    /\ TokenIdle

InitProp ==
    /\ DecodeInit
    /\ pred_eos = FALSE
    /\ FilterInitIdle
    /\ QuantIdle
    /\ PropCall
    /\ SigIdle
    /\ DeformIdle
    /\ PadIdle
    /\ DetrIdle
    /\ PatchIdle
    /\ TokenIdle

InitSig ==
    /\ DecodeInit
    /\ pred_eos = FALSE
    /\ FilterInitIdle
    /\ QuantIdle
    /\ PropIdle
    /\ SigCall
    /\ DeformIdle
    /\ PadIdle
    /\ DetrIdle
    /\ PatchIdle
    /\ TokenIdle

InitDeform ==
    /\ DecodeInit
    /\ pred_eos = FALSE
    /\ FilterInitIdle
    /\ QuantIdle
    /\ PropIdle
    /\ SigIdle
    /\ DeformCall
    /\ PadIdle
    /\ DetrIdle
    /\ PatchIdle
    /\ TokenIdle

InitPad ==
    /\ DecodeInit
    /\ pred_eos = FALSE
    /\ FilterInitIdle
    /\ QuantIdle
    /\ PropIdle
    /\ SigIdle
    /\ DeformIdle
    /\ PadCall
    /\ DetrIdle
    /\ PatchIdle
    /\ TokenIdle

InitDetr ==
    /\ DecodeInit
    /\ pred_eos = FALSE
    /\ FilterInitIdle
    /\ QuantIdle
    /\ PropIdle
    /\ SigIdle
    /\ DeformIdle
    /\ PadIdle
    /\ DetrCall
    /\ PatchIdle
    /\ TokenIdle

Next ==
    \/ ForwardTrain
    \/ ForwardInfer
    \/ DecodeStep
    \/ Return

Spec == Init /\ [][Next]_vars

NextFilter == TopKTopPFiltering

SpecFilter == InitFilter /\ [][NextFilter]_vars

NextQuant ==
    \/ VectorQuantizerForward
    \/ GumbelQuantizerForward
    \/ DoubleGumbelQuantizerForward
    \/ CustomGumbelQuantizerStep
    \/ CustomGumbelQuantizerFuse

SpecQuant == InitQuant /\ [][NextQuant]_vars

NextProp ==
    \/ GenEncoderOutputProposals
    \/ TwoStageTopK

SpecProp == InitProp /\ [][NextProp]_vars

NextSig ==
    \/ SigmoidCall
    \/ InverseSigmoidCall

SpecSig == InitSig /\ [][NextSig]_vars

NextDeform ==
    \/ DeformDecoderLayer
    \/ DeformDecoderReturn

SpecDeform == InitDeform /\ [][NextDeform]_vars

NextPad ==
    \/ AdaptivePaddingForward
    \/ AdaptivePaddingAgain

SpecPad == InitPad /\ [][NextPad]_vars

NextDetr ==
    \/ DetrDecoderForwardLast
    \/ DetrDecoderLayer
    \/ DetrDecoderStack

SpecDetr == InitDetr /\ [][NextDetr]_vars

InitPatch ==
    /\ DecodeInit
    /\ pred_eos = FALSE
    /\ FilterInitIdle
    /\ QuantIdle
    /\ PropIdle
    /\ SigIdle
    /\ DeformIdle
    /\ DetrIdle
    /\ PatchCall
    /\ TokenIdle

NextPatch ==
    \/ NlcToNchw
    \/ NchwToNlc
    \/ PatchEmbedForward
    \/ PatchMergingForward

SpecPatch == InitPatch /\ [][NextPatch]_vars

\* pred_eos is either value, as DecodeInit leaves it
InitToken ==
    /\ DecodeInit
    /\ FilterInitIdle
    /\ QuantIdle
    /\ PropIdle
    /\ SigIdle
    /\ DeformIdle
    /\ PadIdle
    /\ DetrIdle
    /\ PatchIdle
    /\ TokenCall

NextToken == GreedyStep

SpecToken == InitToken /\ [][NextToken]_vars

\* the loop iterations and the code after the loop are always taken up
FairSpec == Spec /\ WF_vars(DecodeStep) /\ WF_vars(Return)

---------------------------------------------------------------------------
(* Properties of the inference loop. *)

Range(s) == {s[i] : i \in 1..Len(s)}

Infer == ~training /\ pc # "idle"

\* C1: with pred_eos, the loop is left by `break` only at a step index
\* s > 4 by which every sample has emitted the end-of-sequence class, and at
\* the first such step (s = 5, or some sample emitted it first at s); the
\* loop never goes on past such a step, and without pred_eos never breaks.
EarlyExitRule ==
    /\ broke =>
          /\ pred_eos
          /\ seq_i > 4
          /\ \A b \in 1..bs : emitted[b]
          /\ seq_i > 5 => \E b \in 1..bs : firstEos[b] = seq_i
    /\ (pc = "loop" /\ pred_eos /\ seq_i > 5) => \E b \in 1..bs : ~emitted[b]
    /\ (Infer /\ pc \in {"post", "done"} /\ pred_eos /\ ~broke) =>
          \E b \in 1..bs : ~emitted[b]

EarlyExitWitness ==
    /\ pc = "done"
    /\ broke
    /\ bs = 2
    /\ seq_i = 6
    /\ firstEos[1] = 0
    /\ firstEos[2] = 6

AllEosAtFirstStep == Infer /\ pred_eos /\ \A b \in 1..bs : firstEos[b] = 0

\* C2 as stated: if every sample emits end-of-sequence at the first step,
\* the loop is left after at most 5 decoder invocations.
ImmediateEosWithinFive ==
    (AllEosAtFirstStep /\ pc \in {"post", "done"}) => nDecoder <= 5

\* C2 amended: if every sample emits end-of-sequence at the first step, the
\* loop is left at step index 5, after exactly 6 decoder invocations, with
\* the outputs of the 5 steps before it recorded.
ImmediateEosWithinSix ==
    AllEosAtFirstStep =>
        /\ nDecoder <= 6
        /\ pc \in {"post", "done"} =>
              /\ broke
              /\ seq_i = 5
              /\ nDecoder = 6
              /\ Len(pred_seq_logits) = 5

ImmediateEosWitness ==
    /\ AllEosAtFirstStep
    /\ pc = "done"
    /\ bs = 2
    /\ nDecoder = 6

\* C3: a call never invokes the decoder more than 500 times, and every
\* inference call leaves the loop: it returns, or (nucleus sampling) raises.
DecodeTerminates ==
    /\ [](nDecoder <= MaxLen)
    /\ (pc = "loop") ~> (pc = "done" \/ (nucleus_sampling /\ pc = "raised"))

DecodeTerminatesWitness ==
    /\ Infer
    /\ pc = "done"
    /\ ~broke
    /\ nDecoder = MaxLen
    /\ Len(pred_seq_logits) = MaxLen

\* C4 as stated: a sample that never emitted the end-of-sequence class is
\* returned at the full length of 500 steps, with or without pred_eos.
NeverEosFullLength ==
    (Infer /\ pc = "done") =>
        \A b \in 1..bs : ~emitted[b] => Len(ret[b]) = MaxLen

\* C5: in inference every layer's cache is empty at the start of a call
\* and, after the k-th decoder invocation, holds exactly the positions
\* 0..k-1 in the order they were appended; a training pass leaves it empty.
KVCacheGrowth ==
    /\ Infer => \A l \in 1..NumLayers : pre_kv[l] = Iota(nDecoder)
    /\ (pc = "loop" /\ seq_i = 0) => pre_kv = EmptyKV
    /\ (training /\ pc = "done") =>
          \A l \in 1..NumLayers : pre_kv[l] = <<>>

KVCacheWitness ==
    /\ Infer
    /\ pc = "loop"
    /\ nDecoder = 3
    /\ pre_kv[NumLayers] = <<0, 1, 2>>

\* C6: in the training pass query i attends to key j iff j <= i; in cached
\* inference the query of step t attends to exactly the positions 0..t,
\* which are the positions row t of the training mask leaves unmasked.
CausalAttention ==
    /\ (training /\ pc = "done") =>
          \A l \in 1..NumLayers : \A i \in 1..Len(attn[l]) :
              Range(attn[l][i]) = {j \in 0..(Len(attn[l]) - 1) : j <= i - 1}
    /\ (Infer /\ nDecoder > 0) =>
          \A l \in 1..NumLayers :
              /\ Len(attn[l]) = 1
              /\ Range(attn[l][1]) = 0..(nDecoder - 1)
              /\ Range(attn[l][1]) =
                    {j \in 0..(MaxLen - 1) : ~TriuEntry(nDecoder - 1, j, 1)}

CausalAttentionWitness ==
    /\ Infer
    /\ pc = "loop"
    /\ nDecoder = 4
    /\ attn[1] = << <<0, 1, 2, 3>> >>

CausalTrainingReached ==
    /\ training
    /\ pc = "done"
    /\ Len(attn[NumLayers]) = MaxSeq

---------------------------------------------------------------------------
(* Properties of top_k_top_p_filtering. *)

Filtered == f_pc = "filtered"

Finite(l) == \A i \in 1..Len(l) : l[i] # NegInf

MaxOf(l) == CHOOSE v \in Range(l) : \A w \in Range(l) : w <= v

\* C7: with top_k = 0 and top_p = 0 the returned logits are the input
\* logits, element for element.
FilterNoOp ==
    (Filtered /\ top_k = 0 /\ top_p = 0) => logits = logits0

FilterNoOpWitness ==
    /\ Filtered
    /\ top_k = 0
    /\ top_p = 0
    /\ logits0 = <<2, 0, 1>>

NucleusSize(l, p, tp) ==
    CHOOSE m \in 1..Len(l) :
        /\ CumWeight(l, p, m) * PDen > tp * CumWeight(l, p, Len(l))
        /\ \A j \in 1..(m - 1) :
              CumWeight(l, p, j) * PDen <= tp * CumWeight(l, p, Len(l))

RECURSIVE SumWeight(_, _)
SumWeight(l, S) ==
    IF S = {} THEN 0
    ELSE LET i == CHOOSE x \in S : TRUE
         IN  Weight(l[i]) + SumWeight(l, S \ {i})

KthValue(l, k) ==
    CHOOSE v \in Range(l) :
        /\ Cardinality({i \in 1..Len(l) : l[i] > v}) < k
        /\ Cardinality({i \in 1..Len(l) : l[i] >= v}) >= k

TopKOnly == Filtered /\ top_p = 0 /\ 0 < top_k /\ top_k <= Len(logits0)

---------------------------------------------------------------------------
(* Properties of the quantizers. *)

QuantDone == q_pc = "done"

\* C11: every encoding index a quantizer of any of the four classes has
\* collected or returned lies in 0 .. num_embeddings - 1.
EncodingIndexInRange ==
    \A i \in 1..Len(encoding_indices) :
        /\ 0 <= encoding_indices[i]
        /\ encoding_indices[i] < num_embeddings

\* a CustomGumbelQuantizer has returned FusedParts index lists of a
\* two-row input, and the last code of a codebook of several is among them
EncodingIndexWitness ==
    /\ QuantDone
    /\ q_kind = "CustomGumbelQuantizer"
    /\ num_embeddings > 1
    /\ Len(encoding_indices) = 2 * FusedParts
    /\ \E i \in 1..Len(encoding_indices) :
           encoding_indices[i] = num_embeddings - 1

RECURSIVE SquaredDistance(_, _, _)
SquaredDistance(u, v, d) ==
    IF d = 0 THEN 0
    ELSE (u[d] - v[d]) * (u[d] - v[d]) + SquaredDistance(u, v, d - 1)

\* C12: a VectorQuantizer returns for every input row the index of a
\* codebook entry at the least squared Euclidean distance from the row,
\* the forward value of the quantized row is that codebook entry, and the
\* quantized output has the shape of the input.
NearestCodebookEntry ==
    (QuantDone /\ q_kind = "VectorQuantizer") =>
        /\ Len(encoding_indices) = Len(flat_input)
        /\ \A r \in 1..Len(flat_input) :
               /\ encoding_indices[r] \in 0..(num_embeddings - 1)
               /\ \A c \in 0..(num_embeddings - 1) :
                      SquaredDistance(flat_input[r],
                                      embedding[encoding_indices[r]], QDim)
                          <= SquaredDistance(flat_input[r], embedding[c],
                                             QDim)
               /\ quantized[r] = embedding[encoding_indices[r]]
        /\ quantized_shape = input_shape

\* two rows of one input are quantized to two different codebook entries,
\* neither of them equal to its row
NearestCodebookWitness ==
    /\ QuantDone
    /\ q_kind = "VectorQuantizer"
    /\ Len(flat_input) = 2
    /\ encoding_indices[1] # encoding_indices[2]
    /\ quantized[1] # quantized[2]
    /\ quantized[1] # flat_input[1]
    /\ quantized[2] # flat_input[2]

---------------------------------------------------------------------------
(* Properties of the two-stage proposals. *)

ProposalsGenerated == p_pc \in {"proposals", "done", "raised"}

IsFiniteLog(v) == v[1] > 0 /\ v[2] > 0

\* the fraction p lies strictly between 1/100 and 99/100
StrictlyInside(p) ==
    /\ p[2] > 0
    /\ 100 * p[1] > p[2]
    /\ 100 * p[1] < 99 * p[2]

\* position s (1-based) is padded, or one of its four proposal
\* coordinates is not strictly between 0.01 and 0.99
PaddedOrInvalid(s) ==
    \/ memory_padding_mask[s]
    \/ \E k \in 1..4 :
           ~StrictlyInside(
               Proposal(memory_padding_mask, spatial_shapes, s - 1)[k])

\* C13: after gen_encoder_output_proposals every padded or invalid
\* position has all four un-activated coordinates equal to +inf and a zero
\* memory row handed to the output projection; every other position has
\* four finite un-activated coordinates (and keeps its memory row).
InvalidProposalsMasked ==
    ProposalsGenerated =>
        \A s \in 1..NumKeys(spatial_shapes) :
            IF PaddedOrInvalid(s)
            THEN /\ \A k \in 1..4 : output_proposals[s][k] = PosInf
                 /\ output_memory[s] = 0
            ELSE /\ \A k \in 1..4 : IsFiniteLog(output_proposals[s][k])
                 /\ output_memory[s] = memory[s]

\* one feature map holds a padded position, a position that is not padded
\* but invalid, and a position with a finite proposal
InvalidProposalsWitness ==
    /\ ProposalsGenerated
    /\ \E s, t, u \in 1..NumKeys(spatial_shapes) :
           /\ memory_padding_mask[s]
           /\ ~memory_padding_mask[t] /\ PaddedOrInvalid(t)
           /\ ~PaddedOrInvalid(u)
           /\ IsFiniteLog(output_proposals[u][1])

\* C14: none of the two_stage_num_proposals positions selected by top-k
\* is padded or invalid.
TopKExcludesInvalid ==
    p_pc = "done" =>
        \A i \in 1..Len(topk_proposals) :
            ~PaddedOrInvalid(topk_proposals[i] + 1)

---------------------------------------------------------------------------
(* Properties of inverse_sigmoid. *)

InverseSigmoidDone == s_pc = "done"

\* C15: for every x, inside or outside [0, 1], and every eps of (0, 1/2]
\* the numerator x1 and the denominator x2 of inverse_sigmoid are both at
\* least eps, the argument of the logarithm lies in [eps, 1 / eps], and the
\* result is finite (its exponential is neither 0 nor +inf).
InverseSigmoidSafe ==
    InverseSigmoidDone =>
        /\ FLeq(s_eps, s_x1)
        /\ FLeq(s_eps, s_x2)
        /\ s_out[1] > 0 /\ s_out[2] > 0
        /\ s_out[1] * s_eps[2] >= s_out[2] * s_eps[1]
        /\ s_out[1] * s_eps[1] <= s_out[2] * s_eps[2]

\* inverse_sigmoid has returned for an x above 1 under the default eps,
\* with the denominator clamped to eps
InverseSigmoidWitness ==
    /\ InverseSigmoidDone
    /\ ~s_fromSigmoid
    /\ s_x[1] > s_x[2]
    /\ s_eps = DefaultEps
    /\ s_x2 = s_eps
    /\ s_out = <<DefaultEpsInv, 1>>

\* C16: inverse_sigmoid(sigmoid(y)) is y whenever eps < sigmoid(y) < 1 - eps.
SigmoidRoundTrip ==
    (/\ InverseSigmoidDone
     /\ s_fromSigmoid
     /\ s_x[1] * s_eps[2] > s_eps[1] * s_x[2]
     /\ s_x[1] * s_eps[2] < (s_eps[2] - s_eps[1]) * s_x[2])
        => s_out[1] * s_y[2] = s_y[1] * s_out[2]

\* a logit other than 0 has made the round trip with neither clamp active
SigmoidRoundTripWitness ==
    /\ InverseSigmoidDone
    /\ s_fromSigmoid
    /\ s_y[1] > s_y[2]
    /\ s_x[1] * s_eps[2] > s_eps[1] * s_x[2]
    /\ s_x[1] * s_eps[2] < (s_eps[2] - s_eps[1]) * s_x[2]
    /\ s_out = s_y

\* outside the interval of C16 the round trip clamps: a large logit is
\* returned as log((1 - eps) / eps) or less
SigmoidRoundTripClamped ==
    /\ InverseSigmoidDone
    /\ s_fromSigmoid
    /\ s_x2 = s_eps
    /\ s_out # s_y

---------------------------------------------------------------------------
(* Properties of DeformableDetrTransformerDecoder.forward. *)

\* the fraction p lies in [0, 1]
InUnit(p) == p[2] > 0 /\ 0 <= p[1] /\ p[1] <= p[2]

RowInUnit(row) == \A k \in 1..Len(row) : InUnit(row[k])

\* C17: given reference points in [0, 1], with or without regression
\* branches and for two or four coordinates, the reference points after
\* every layer, what every layer is handed, and every intermediate and
\* returned reference point have all coordinates in [0, 1].
ReferencePointsInUnit ==
    /\ RowInUnit(reference_points)
    /\ RowInUnit(reference_points_input)
    /\ \A i \in 1..Len(intermediate_reference_points) :
           RowInUnit(intermediate_reference_points[i])
    /\ \A i \in 1..Len(d_ret) : RowInUnit(d_ret[i])

\* three refining layers have returned their reference points, which
\* differ from layer to layer and end strictly inside (0, 1)
ReferencePointsWitness ==
    /\ d_pc = "done"
    /\ d_return_intermediate
    /\ reg_width # 0
    /\ Len(d_ret) = 3
    /\ d_ret[1] # d_ret[2]
    /\ d_ret[2] # d_ret[3]
    /\ 0 < d_ret[3][1][1]
    /\ d_ret[3][1][1] < d_ret[3][1][2]

---------------------------------------------------------------------------
(* Properties of AdaptivePadding. *)

Padded2D == a_pc = "done"

\* the extent of a window: (kernel - 1) * dilation + 1
Extent(kernel, dilation_) == (kernel - 1) * dilation_ + 1

\* the number of windows of the given extent and stride on `size` rows
Windows(size, extent, stride_) ==
    IF size < extent THEN 0 ELSE (size - extent) \div stride_ + 1

\* row r of the padded input lies within the extent of some window
InSomeWindow(r, size, extent, stride_) ==
    \E i \in 0..(Windows(size, extent, stride_) - 1) :
        i * stride_ <= r /\ r <= i * stride_ + extent - 1

\* the last row (dim = 1) or column (dim = 2) of the original input is
\* within some window of the padded input
LastCovered(dim) ==
    InSomeWindow((IF dim = 1 THEN a_pads[3] ELSE a_pads[1])
                     + a_input[dim] - 1,
                 a_output[dim],
                 Extent(kernel_size[dim], dilation[dim]),
                 stride[dim])

\* C18: after padding, the sliding windows reach the last row and the last
\* column of the original input, for every input size, kernel, stride and
\* dilation of at least 1.
InputFullyCovered == Padded2D => LastCovered(1) /\ LastCovered(2)

\* the least n with n * stride_ >= input
LeastCount(input, stride_) ==
    CHOOSE n \in 0..input : n * stride_ >= input /\ (n - 1) * stride_ < input

\* the total padding of one dimension as C19 states it
TotalPad(dim) ==
    LET need == (LeastCount(a_input[dim], stride[dim]) - 1) * stride[dim]
                    + (kernel_size[dim] - 1) * dilation[dim] + 1
                    - a_input[dim]
    IN  IF need > 0 THEN need ELSE 0

\* C19: in both modes the total padding of a dimension is
\* max((ceil(in / stride) - 1) * stride + (kernel - 1) * dilation + 1 - in, 0);
\* "corner" puts all of it at the bottom and the right, "same" puts
\* floor(pad / 2) at the top and the left and the rest at the bottom and
\* the right; with kernel = stride and dilation 1 the padded size is the
\* least multiple of the stride not below the input size, and 15 x 17 and
\* 16 x 17 both become 16 x 32 for kernel = stride = 16.
PaddingAmounts ==
    Padded2D =>
        /\ a_pads[3] + a_pads[4] = TotalPad(1)
        /\ a_pads[1] + a_pads[2] = TotalPad(2)
        /\ a_output = <<a_input[1] + TotalPad(1), a_input[2] + TotalPad(2)>>
        /\ padding = "corner" => a_pads[1] = 0 /\ a_pads[3] = 0
        /\ padding = "same" =>
               /\ 2 * a_pads[3] <= TotalPad(1) /\ TotalPad(1) <= 2 * a_pads[3] + 1
               /\ 2 * a_pads[1] <= TotalPad(2) /\ TotalPad(2) <= 2 * a_pads[1] + 1
        /\ \A dim \in 1..2 :
               (kernel_size[dim] = stride[dim] /\ dilation[dim] = 1) =>
                   /\ a_output[dim] % stride[dim] = 0
                   /\ a_output[dim] >= a_input[dim]
                   /\ a_output[dim] - stride[dim] < a_input[dim]
        /\ (kernel_size = DocKernel /\ stride = DocKernel
                /\ dilation = <<1, 1>> /\ a_input \in DocInputs) =>
               a_output = <<16, 32>>

\* "same" mode has split an odd padding of the rows with no padding of
\* the columns
PaddingAmountsWitness ==
    /\ Padded2D
    /\ padding = "same"
    /\ TotalPad(1) = 3
    /\ a_pads[3] = 1
    /\ a_pads[4] = 2
    /\ TotalPad(2) = 0

\* the 15 x 17 input of the docstring has been padded to 16 x 32
DocExamplePadded ==
    /\ Padded2D
    /\ a_input = <<15, 17>>
    /\ a_output = <<16, 32>>

\* a kernel whose extent is at least the stride: the windows do reach the
\* last row and column
CoveredWhenExtentAtLeastStride ==
    (Padded2D /\ \A dim \in 1..2 :
         Extent(kernel_size[dim], dilation[dim]) >= stride[dim])
        => LastCovered(1) /\ LastCovered(2)

---------------------------------------------------------------------------
(* Properties of DetrTransformerDecoder.forward. *)

\* C20: the returned tensor has shape [1, num_query, bs, embed_dims]
\* whenever return_intermediate is False, and shape
\* [num_layers, num_query, bs, embed_dims] holding one output per layer in
\* order when it is True, for every post_norm_cfg including None.
DetrDecoderShape ==
    t_pc = "done" =>
        IF t_return_intermediate
        THEN /\ t_ret_shape = <<t_num_layers>> \o t_query_shape
             /\ t_ret_layers = [i \in 1..t_num_layers |-> i]
        ELSE t_ret_shape = <<1>> \o t_query_shape

\* with a post norm the claim's shapes are what is returned
DetrDecoderShapeWithNorm == t_post_norm => DetrDecoderShape

---------------------------------------------------------------------------
(* The shape helpers and the patch layers. *)

PatchReturned == m_pc \in {"done", "raised"}

\* C21: nlc_to_nchw and PatchMerging.forward raise and produce no result
\* exactly when the token count L of the input differs from H * W of the
\* given spatial size (nlc_to_nchw also when the input does not have 3
\* dimensions, nchw_to_nlc exactly when it does not have 4); when
\* L = H * W they return.
ShapeMismatchRaises ==
    PatchReturned =>
        /\ m_op = "nlc_to_nchw" =>
               (m_pc = "raised") =
                   (Len(x_shape) # 3 \/ x_shape[2] # hw_shape[1] * hw_shape[2])
        /\ m_op = "nchw_to_nlc" => (m_pc = "raised") = (Len(x_shape) # 4)
        /\ m_op = "PatchMerging" =>
               (m_pc = "raised") = (x_shape[2] # hw_shape[1] * hw_shape[2])
        /\ m_pc = "raised" => m_ret_shape = <<>> /\ out_size = None
        /\ m_pc = "done" => m_ret_shape # <<>>

\* a PatchMerging handed one token more than H * W has raised
ShapeMismatchWitness ==
    /\ m_op = "PatchMerging"
    /\ m_pc = "raised"
    /\ x_shape[2] = hw_shape[1] * hw_shape[2] + 1

\* nlc_to_nchw has returned B x C x H x W for an input with L = H * W > 1
ShapeMatchReturned ==
    /\ m_op = "nlc_to_nchw"
    /\ m_pc = "done"
    /\ x_shape[2] = 4
    /\ m_ret_shape = <<x_shape[1], x_shape[3], 2, 2>>

---------------------------------------------------------------------------
(* The N-way Gumbel quantizer. *)

\* C22: a CustomGumbelQuantizer built with any quant_num >= 1 completes
\* forward: the width of the concatenation of its quant_num quantized
\* tensors is the input width of the fusion projection, and the quantized
\* output has the shape of the input.
FusionWidthMatches ==
    (q_kind = "CustomGumbelQuantizer" /\ q_i = quant_num /\ q_pc # "call") =>
        /\ q_pc = "done"
        /\ quantized_shape = input_shape

\* with the quant_num of the default the forward pass completes
FusionOfFiveDone ==
    (q_kind = "CustomGumbelQuantizer" /\ quant_num = FusedParts
     /\ q_i = quant_num /\ q_pc # "call") =>
        /\ q_pc = "done"
        /\ quantized_shape = input_shape

---------------------------------------------------------------------------
(* Nucleus sampling in the inference loop. *)

\* C23: in inference decoding with nucleus_sampling, for every batch size
\* >= 1 no decode step fails the one-dimensional-logits assertion of the
\* filter: every step feeds a sampled token into the next one.
NucleusStepNeverFails == (Infer /\ nucleus_sampling) => pc # "raised"

\* with one sample in the batch no step fails that assertion
NucleusSingleSampleNeverFails ==
    (Infer /\ nucleus_sampling /\ bs = 1) => pc # "raised"

---------------------------------------------------------------------------
(* The returned sequences of the inference loop. *)

\* C24: with pred_eos, the sequence returned for a sample that emitted the
\* end-of-sequence class holds exactly the outputs of the steps before the
\* first step at which it emitted it, in step order: its length is the
\* index of that step and is at most the number of outputs recorded.
ReturnedUpToFirstEos ==
    (pc = "done" /\ Infer /\ pred_eos) =>
        \A b \in 1..bs :
            emitted[b] =>
                /\ Len(ret[b]) = firstEos[b]
                /\ ret[b] = Iota(firstEos[b])
                /\ Len(ret[b]) <= Len(pred_seq_logits)

\* two samples whose first end-of-sequence steps differ have been returned
ReturnedUpToFirstEosWitness ==
    /\ pc = "done"
    /\ Infer
    /\ pred_eos
    /\ bs = 2
    /\ emitted[1] /\ firstEos[1] = 4 /\ ret[1] = <<0, 1, 2, 3>>
    /\ emitted[2] /\ firstEos[2] = 5 /\ Len(ret[2]) = 5

---------------------------------------------------------------------------
(* The end-of-sequence bookkeeping of the inference loop. *)

\* the loop of an inference pass with pred_eos is running or has been left
EosLoop == Infer /\ pred_eos /\ pc \in {"loop", "post"}

\* C25: throughout the inference loop with pred_eos, the end flag of a
\* sample, once set, stays set; its recorded end length changes only at the
\* step that sets the flag; and the recorded end length of every sample is
\* at most the current step index.
EndFlagMonotone ==
    /\ [](EosLoop => \A b \in 1..bs : end_lens[b] <= seq_i)
    /\ [][(EosLoop /\ pc = "loop") =>
              \A b \in 1..bs :
                  /\ end[b] => end'[b]
                  /\ end_lens'[b] # end_lens[b] => ~end[b] /\ end'[b]]_vars

\* a sample's flag was set at step 4 with end length 4 and the loop has
\* gone on to step 6, the other sample's flag still clear
EndFlagMonotoneWitness ==
    /\ EosLoop
    /\ bs = 2
    /\ seq_i = 6
    /\ end[1] /\ end_lens[1] = 4 /\ firstEos[1] = 4
    /\ ~end[2]

---------------------------------------------------------------------------
(* The token fed into the next decode step. *)

\* C26: in greedy decoding the token fed into the next step is a class
\* index in 0 .. num_vocal - 3: never the end-of-sequence class
\* num_vocal - 2 nor the last class num_vocal - 1, also at a step where
\* end-of-sequence is detected.
GreedyTokenInRange ==
    g_pc = "done" =>
        /\ g_pred_token \in 0..(NumVocal - 3)
        /\ g_pred_token # NumVocal - 2
        /\ g_pred_token # NumVocal - 1

\* end-of-sequence has been detected on a row whose largest logit is the
\* one of the end-of-sequence class, and the token fed on is class 1
GreedyTokenWitness ==
    /\ g_pc = "done"
    /\ pred_eos
    /\ g_stop_state
    /\ \A c \in 0..(NumVocal - 1) :
           c # NumVocal - 2 => g_row[c] < g_row[NumVocal - 2]
    /\ g_row[0] < g_row[1]
    /\ g_pred_token = 1

---------------------------------------------------------------------------
(* The coordinate count of the refined reference points. *)

\* C27: with regression branches the reference points handed to the next
\* layer have as many coordinates as the regression output, and so have
\* all the intermediate reference points returned; refined from two
\* coordinates, the first two are sigmoid(offset + inverse_sigmoid(old)),
\* the remaining ones the sigmoid of the raw regression output; with a
\* 4-wide regression output every layer after the first is handed
\* 4-coordinate reference points.
RefinedCoordinateCount ==
    /\ []((d_pc \in {"loop", "done"} /\ reg_width # 0 /\ d_lid >= 1) =>
            /\ Len(reference_points) = reg_width
            /\ d_lid >= 2 => Len(reference_points_input) = reg_width
            /\ \A i \in DOMAIN intermediate_reference_points :
                   Len(intermediate_reference_points[i]) = reg_width
            /\ d_pc = "done" =>
                   \A i \in DOMAIN d_ret : Len(d_ret[i]) = reg_width)
    /\ [][(d_pc = "loop" /\ reg_width # 0 /\ Len(reference_points) = 2
           /\ d_lid' = d_lid + 1) =>
              \E tmp \in TmpRows(reg_width) :
                  /\ Len(reference_points') = Len(tmp)
                  /\ \A k \in 1..Len(tmp) :
                         reference_points'[k] =
                             IF k <= 2
                             THEN SigmoidOfExp(
                                      FMul(tmp[k],
                                           InverseSigmoid(reference_points[k],
                                                          DefaultEps)))
                             ELSE SigmoidOfExp(tmp[k])]_vars

\* the first layer was handed 2-coordinate reference points and a 4-wide
\* regression output has refined them to 4 coordinates
RefinedCoordinateCountWitness ==
    /\ d_pc = "loop"
    /\ d_lid = 1
    /\ d_num_layers = 3
    /\ reg_width = 4
    /\ d_return_intermediate
    /\ Len(reference_points_input) = 2
    /\ Len(reference_points) = 4
    /\ Len(intermediate_reference_points[1]) = 4

\* a decoder of three layers with a 4-wide regression output has returned
\* three intermediate reference points; its last layer was handed 4
\* coordinates
FourCoordinateBranchTaken ==
    /\ d_pc = "done"
    /\ reg_width = 4
    /\ Len(d_ret) = 3
    /\ Len(reference_points_input) = 4

---------------------------------------------------------------------------
(* The output size of the patch layers. *)

\* the spatial size of the input of the layer called
PatchInputSize ==
    IF m_op = "PatchEmbed" THEN <<x_shape[3], x_shape[4]>> ELSE hw_shape

\* C28: with adaptive padding the output size of PatchEmbed and of
\* PatchMerging is ceil(H / stride_h) x ceil(W / stride_w) for every input
\* size, kernel, stride and dilation; the init_out_size a PatchEmbed
\* computed at construction from input_size is the out_size forward returns
\* for an input of that size; and the number of tokens returned is
\* out_h * out_w.
OutSizeIsCeil ==
    (m_pc = "done" /\ m_op \in {"PatchEmbed", "PatchMerging"}) =>
        /\ out_size = <<Ceil(PatchInputSize[1], stride[1]),
                        Ceil(PatchInputSize[2], stride[2])>>
        /\ m_ret_shape[2] = out_size[1] * out_size[2]
        /\ (m_op = "PatchEmbed" /\ hw_shape = PatchInputSize) =>
               init_out_size = out_size

\* a PatchEmbed of kernel 3, stride 2 and dilation 2 built for 3 x 4 inputs
\* has returned the 2 x 2 tokens of a 3 x 4 input
OutSizeIsCeilWitness ==
    /\ m_pc = "done"
    /\ m_op = "PatchEmbed"
    /\ kernel_size = <<3, 3>>
    /\ stride = <<2, 2>>
    /\ dilation = <<2, 2>>
    /\ hw_shape = <<3, 4>>
    /\ PatchInputSize = <<3, 4>>
    /\ init_out_size = <<2, 2>>
    /\ out_size = <<2, 2>>
    /\ m_ret_shape[2] = 4

\* a PatchMerging of kernel 1 and stride 3 has merged 4 x 2 tokens, which
\* it did not pad, into 2 x 1
PatchMergingUnpadded ==
    /\ m_pc = "done"
    /\ m_op = "PatchMerging"
    /\ kernel_size = <<1, 1>>
    /\ stride = <<3, 3>>
    /\ hw_shape = <<4, 2>>
    /\ a_pads = <<0, 0, 0, 0>>
    /\ out_size = <<2, 1>>

---------------------------------------------------------------------------
(* AdaptivePadding applied twice. *)

\* the padding applied is all zero
NoPadding == a_pads = <<0, 0, 0, 0>>

\* C29: AdaptivePadding never removes rows or columns (no padding amount
\* is negative), and applied to its own output it adds no further padding
\* along a dimension whose kernel extent (kernel - 1) * dilation + 1 does
\* not exceed the stride: padding twice gives the size of padding once.
PaddingIdempotent ==
    /\ a_pc \in {"done", "twice"} =>
           /\ \A k \in 1..4 : a_pads[k] >= 0
           /\ a_output[1] >= a_input[1]
           /\ a_output[2] >= a_input[2]
    /\ a_pc = "twice" =>
           /\ Extent(kernel_size[1], dilation[1]) <= stride[1] =>
                  a_output[1] = a_input[1]
           /\ Extent(kernel_size[2], dilation[2]) <= stride[2] =>
                  a_output[2] = a_input[2]
           /\ (/\ Extent(kernel_size[1], dilation[1]) <= stride[1]
               /\ Extent(kernel_size[2], dilation[2]) <= stride[2]) =>
                  NoPadding

\* a 4 x 4 input padded to 5 x 5 for kernel 2 and stride 3 has been handed
\* to the padding again and came back 5 x 5
PaddingIdempotentWitness ==
    /\ a_pc = "twice"
    /\ kernel_size = <<2, 2>>
    /\ stride = <<3, 3>>
    /\ dilation = <<1, 1>>
    /\ a_input = <<5, 5>>
    /\ a_output = <<5, 5>>
    /\ NoPadding

\* with a kernel extent above the stride the second application pads again
PaddedAgainWhenExtentExceedsStride ==
    /\ a_pc = "twice"
    /\ kernel_size = <<3, 3>>
    /\ stride = <<1, 1>>
    /\ dilation = <<1, 1>>
    /\ a_output[1] > a_input[1]

=============================================================================
